---- MODULE Spec2Model ----
(***************************************************************************)
(* Model of the Sarufi session orchestrator (src/src/core/sarufi.ts) and   *)
(* of the Agent that interprets the oracle's decision                      *)
(* (src/src/agent/rag.ts, class Agent).                                    *)
(*                                                                         *)
(* Representation notes                                                    *)
(*  - The sessions Map is a sequence in insertion order; a session's id is *)
(*    its index (generateSarufiSessionId is taken to return a fresh id).   *)
(*  - JavaScript objects that can be shared by reference (user_inputs,     *)
(*    which is the caller's initialContext object itself) live in `heap`;  *)
(*    a SessionContext holds the index of its user_inputs object.          *)
(*  - A field that is missing holds Undefined; an empty string is "".      *)
(*  - confidence is held in thousandths (700 is 0.7).                      *)
(*  - An async method runs without interruption up to its next await; a    *)
(*    call suspended at an await is an entry of `pending`, in call order;  *)
(*    `overlapped` records whether two calls were ever suspended at once.  *)
(*  - Date values are not modelled: every timestamp string is Timestamp,   *)
(*    and created_at / updated_at / totalSessionDuration are left out.     *)
(***************************************************************************)
EXTENDS Integers, Sequences, FiniteSets, TLC

VARIABLES strategies, agents, sessions, heap, sessionStats, last, pending,
          overlapped

vars == <<strategies, agents, sessions, heap, sessionStats, last, pending,
          overlapped>>

----------------------------------------------------------------------------
(* Bounds of the model *)

\* the counters totalSessions, totalMessages and completedSessions grow without
\* limit; the model stops accepting a call that would take their sum past this
MaxCalls == 3

\* the most calls the model lets be suspended at an await at the same time
MaxPending == 2

----------------------------------------------------------------------------
(* Inputs *)

Users == {"u1", "u2"}

UserTexts == {"hello"}

Timestamp == "ts"

\* the value of a property that is missing
Undefined == "<undefined>"

EmptyObj == [k \in {} |-> ""]

\* Object.assign(target, source) and the object spread {...target, ...source}
Assign(target, source) ==
    [k \in (DOMAIN target) \cup (DOMAIN source) |->
        IF k \in DOMAIN source THEN source[k] ELSE target[k]]

ValidStrategy ==
    [name |-> "sales", domain |-> "retail", primary_goal |-> "sell",
     personality |-> "friendly", guidelines |-> "rules"]

\* the strategies a caller passes to registerStrategy: three valid ones (two
\* of them with the same name), one with each required field missing, and
\* one with each string field present but empty
StrategyInputs ==
    { ValidStrategy,
      [ValidStrategy EXCEPT !.primary_goal = "inform"],
      [ValidStrategy EXCEPT !.name = "support"],
      [ValidStrategy EXCEPT !.name = Undefined],
      [ValidStrategy EXCEPT !.primary_goal = Undefined],
      [ValidStrategy EXCEPT !.domain = Undefined],
      [ValidStrategy EXCEPT !.personality = Undefined],
      [ValidStrategy EXCEPT !.guidelines = Undefined],
      [ValidStrategy EXCEPT !.name = ""],
      [ValidStrategy EXCEPT !.primary_goal = ""],
      [ValidStrategy EXCEPT !.domain = ""] }

StrategyNames == {"sales", "support", "ghost"}

\* the initialContext objects a caller writes as a fresh literal
InitialContexts == { [budget |-> "low", plan |-> "pro"] }

----------------------------------------------------------------------------
(* Decisions of the oracle (src/src/schemas/decision.schema.ts) *)

BaseDecision ==
    [strategy_analysis |->
        [current_goal |-> "qualify", goal_progress |-> "in_progress",
         situation_assessment |-> "interested",
         relevant_guidelines |-> <<"be polite">>,
         opportunities |-> <<"upsell">>, risk_factors |-> <<>>],
     flow_decision |->
        [next_action |-> "provide_information",
         reasoning |-> "user asked for the price list",
         confidence |-> 900, urgency |-> "low", backup_plan |-> "ask again"],
     action_execution |->
        [message |-> "here is the price", message_intent |-> "inform",
         expected_user_response |-> "question",
         context_updates |-> ("budget" :> "high"),
         next_goal |-> "close"],
     meta |->
        [session_stage |-> "discovery", user_sentiment |-> "positive",
         should_escalate |-> FALSE, escalation_reason |-> ""]]

EscalatingDecision ==
    [BaseDecision EXCEPT
        !.flow_decision.next_action = "escalate",
        !.action_execution.message = "handing you over",
        !.action_execution.context_updates = EmptyObj,
        !.meta.user_sentiment = "negative",
        !.meta.should_escalate = TRUE,
        !.meta.escalation_reason = "angry"]

\* next_action says escalate, the flag does not; context_updates carries a
\* key that is also a fixed derived key
EscalateActionOnly ==
    [BaseDecision EXCEPT
        !.flow_decision.next_action = "escalate",
        !.flow_decision.confidence = 700,
        !.action_execution.context_updates = ("current_goal" :> "hijacked"),
        !.meta.user_sentiment = "neutral"]

CloseActionOnly ==
    [BaseDecision EXCEPT
        !.strategy_analysis.relevant_guidelines = <<>>,
        !.strategy_analysis.opportunities = <<>>,
        !.flow_decision.next_action = "close_session",
        !.flow_decision.reasoning = "done",
        !.flow_decision.confidence = 505,
        !.action_execution.message = "goodbye",
        !.action_execution.context_updates = EmptyObj]

Decisions ==
    {BaseDecision, EscalatingDecision, EscalateActionOnly, CloseActionOnly}

\* decisions on both sides of every threshold of the quality score:
\* no or one relevant guideline, confidence 0.5 / 0.7 / 0.701 / 0.9, no or one
\* opportunity, no or one risk factor, reasoning of 5 / 20 / 21 / 29 characters
QualityDecisions ==
    { [BaseDecision EXCEPT
            !.strategy_analysis.relevant_guidelines = g,
            !.strategy_analysis.opportunities = o,
            !.strategy_analysis.risk_factors = rk,
            !.flow_decision.confidence = c,
            !.flow_decision.reasoning = r] :
        g \in {<<>>, <<"be polite">>},
        o \in {<<>>, <<"upsell">>},
        rk \in {<<>>, <<"churn">>},
        c \in {500, 700, 701, 900},
        r \in {"done.", "exactly twenty chars", "exactly twenty chars!",
               "user asked for the price list"} }

\* a decision whose own context_updates name fixed derived keys, and one key
\* (budget) that is not one
CollidingDecision ==
    [BaseDecision EXCEPT
        !.action_execution.context_updates =
            [budget |-> "high",
             last_user_message |-> "forged",
             session_stage |-> "closing",
             user_sentiment |-> "negative",
             previous_goal |-> "forged",
             current_goal |-> "hijacked",
             goal_progress |-> "completed",
             decision_confidence |-> 1000,
             backup_plan |-> "forged",
             escalation_needed |-> TRUE,
             escalation_reason |-> "forged",
             last_decision_time |-> "forged",
             updated_at |-> "forged"]]

\* what generateText throws: a provider failure or a timeout
OracleErrors == {"oracle unavailable", "timeout"}

\* the three ways an oracle round ends
Decided(d) == [kind |-> "decision", decision |-> d]
Failed(e) == [kind |-> "error", message |-> e]
NoAnswer == [kind |-> "no_answer"]

OracleFailed(outcome) == outcome.kind # "decision"

----------------------------------------------------------------------------
(* Agent (src/src/agent/rag.ts) *)

\* Math.round(confidence * 100), confidence in thousandths
RoundPercent(confidence) == (confidence + 5) \div 10

\* the quality score in tenths
\* the quality score with the confidence threshold included
qualityScore_AtLeast(decision) ==
    (IF Len(decision.strategy_analysis.relevant_guidelines) > 0 THEN 3 ELSE 0)
  + (IF decision.flow_decision.confidence >= 700 THEN 3 ELSE 0)
  + (IF \/ Len(decision.strategy_analysis.opportunities) > 0
        \/ Len(decision.strategy_analysis.risk_factors) > 0 THEN 2 ELSE 0)
  + (IF Len(decision.flow_decision.reasoning) > 20 THEN 2 ELSE 0)

qualityScore(decision) ==
    (IF Len(decision.strategy_analysis.relevant_guidelines) > 0 THEN 3 ELSE 0)
  + (IF decision.flow_decision.confidence > 700 THEN 3 ELSE 0)
  + (IF \/ Len(decision.strategy_analysis.opportunities) > 0
        \/ Len(decision.strategy_analysis.risk_factors) > 0 THEN 2 ELSE 0)
  + (IF Len(decision.flow_decision.reasoning) > 20 THEN 2 ELSE 0)

evaluateDecisionQuality(decision) ==
    IF qualityScore(decision) >= 8 THEN "high"
    ELSE IF qualityScore(decision) >= 5 THEN "medium"
    ELSE "low"

\* a separator without the surrounding blanks
Separator_Bare == "|"

Separator == " | "

reasoningOf(decision) ==
    "Analysis: " \o decision.strategy_analysis.situation_assessment
    \o Separator \o "Decision: " \o decision.flow_decision.reasoning
    \o Separator \o "Action: " \o decision.action_execution.message_intent
    \o Separator \o "Confidence: "
        \o ToString(RoundPercent(decision.flow_decision.confidence)) \o "%"
    \o Separator \o "Stage: " \o decision.meta.session_stage

\* the fixed keys interpretDecision writes after the decision's own updates
\* the derived keys with the previous goal read from the merged user inputs
derivedKeys_PreviousFromInputs(decision, prompt, context) ==
    [last_decision |-> decision,
     last_user_message |-> prompt,
     session_stage |-> decision.meta.session_stage,
     user_sentiment |-> decision.meta.user_sentiment,
     guidelines_considered |-> decision.strategy_analysis.relevant_guidelines,
     opportunities_identified |-> decision.strategy_analysis.opportunities,
     risks_identified |-> decision.strategy_analysis.risk_factors,
     previous_goal |->
        IF /\ context.user_inputs \in DOMAIN heap
           /\ "current_goal" \in DOMAIN heap[context.user_inputs]
        THEN heap[context.user_inputs].current_goal
        ELSE context.current_goal,
     current_goal |-> decision.action_execution.next_goal,
     goal_progress |-> decision.strategy_analysis.goal_progress,
     decision_confidence |-> decision.flow_decision.confidence,
     backup_plan |-> decision.flow_decision.backup_plan,
     escalation_needed |-> decision.meta.should_escalate,
     escalation_reason |-> decision.meta.escalation_reason,
     last_decision_time |-> Timestamp,
     updated_at |-> Timestamp]

derivedKeys(decision, prompt, context) ==
    [last_decision |-> decision,
     last_user_message |-> prompt,
     session_stage |-> decision.meta.session_stage,
     user_sentiment |-> decision.meta.user_sentiment,
     guidelines_considered |-> decision.strategy_analysis.relevant_guidelines,
     opportunities_identified |-> decision.strategy_analysis.opportunities,
     risks_identified |-> decision.strategy_analysis.risk_factors,
     previous_goal |-> context.current_goal,
     current_goal |-> decision.action_execution.next_goal,
     goal_progress |-> decision.strategy_analysis.goal_progress,
     decision_confidence |-> decision.flow_decision.confidence,
     backup_plan |-> decision.flow_decision.backup_plan,
     escalation_needed |-> decision.meta.should_escalate,
     escalation_reason |-> decision.meta.escalation_reason,
     last_decision_time |-> Timestamp,
     updated_at |-> Timestamp]

\* interpretDecision spreading the decision's own updates last
interpretDecision_UpdatesLast(decision, prompt, context) ==
    [message |-> decision.action_execution.message,
     action_taken |-> decision.flow_decision.next_action,
     reasoning |-> reasoningOf(decision),
     confidence |-> decision.flow_decision.confidence,
     context_updates |->
        Assign(derivedKeys(decision, prompt, context),
               decision.action_execution.context_updates),
     suggested_next_user_action |->
        decision.action_execution.expected_user_response,
     meta |->
        [session_stage |-> decision.meta.session_stage,
         user_sentiment |-> decision.meta.user_sentiment,
         should_escalate |-> decision.meta.should_escalate,
         decision_quality |-> evaluateDecisionQuality(decision)]]

\* interpretDecision recording the quality tier among the derived keys
interpretDecision_RecordsQuality(decision, prompt, context) ==
    [message |-> decision.action_execution.message,
     action_taken |-> decision.flow_decision.next_action,
     reasoning |-> reasoningOf(decision),
     confidence |-> decision.flow_decision.confidence,
     context_updates |->
        Assign(Assign(decision.action_execution.context_updates,
                      derivedKeys(decision, prompt, context)),
               [decision_quality |-> evaluateDecisionQuality(decision)]),
     suggested_next_user_action |->
        decision.action_execution.expected_user_response,
     meta |->
        [session_stage |-> decision.meta.session_stage,
         user_sentiment |-> decision.meta.user_sentiment,
         should_escalate |-> decision.meta.should_escalate,
         decision_quality |-> evaluateDecisionQuality(decision)]]

interpretDecision(decision, prompt, context) ==
    [message |-> decision.action_execution.message,
     action_taken |-> decision.flow_decision.next_action,
     reasoning |-> reasoningOf(decision),
     confidence |-> decision.flow_decision.confidence,
     context_updates |->
        Assign(decision.action_execution.context_updates,
               derivedKeys(decision, prompt, context)),
     suggested_next_user_action |->
        decision.action_execution.expected_user_response,
     meta |->
        [session_stage |-> decision.meta.session_stage,
         user_sentiment |-> decision.meta.user_sentiment,
         should_escalate |-> decision.meta.should_escalate,
         decision_quality |-> evaluateDecisionQuality(decision)]]

FallbackMessage ==
    "I apologize, but I'm having trouble processing your message right now. Could you please rephrase or try again?"

generateFallbackResponse(errorMessage) ==
    [message |-> FallbackMessage,
     action_taken |-> "error_fallback",
     reasoning |-> "System error: " \o errorMessage,
     confidence |-> 100,
     context_updates |->
        [last_error |-> errorMessage,
         error_timestamp |-> Timestamp,
         fallback_used |-> TRUE],
     suggested_next_user_action |-> "rephrase_or_retry",
     meta |->
        [session_stage |-> "error_recovery",
         user_sentiment |-> "unknown",
         should_escalate |-> TRUE,
         decision_quality |-> "low"]]

\* the message of the error the try block of processPrompt ends with
thrownMessage(outcome) ==
    IF outcome.kind = "error" THEN outcome.message
    ELSE "No decision tool call found"

\* processPrompt never throws: every failure of the round is caught and
\* answered with the fallback response
processPrompt(prompt, context, outcome) ==
    IF outcome.kind = "decision"
    THEN interpretDecision(outcome.decision, prompt, context)
    ELSE generateFallbackResponse(thrownMessage(outcome))

----------------------------------------------------------------------------
(* Sarufi (src/src/core/sarufi.ts): state *)

\* the record of the most recent API call: its arguments (arg is the strategy
\* of registerStrategy, the name of unregisterStrategy, the strategy name of
\* startSession and the message of sendMessage), the prompts its
\* agent rounds were given, how each oracle round ended, the AgentResponse
\* each round produced, and what the call returned (<<value>>) or threw
\* (threw # "")
Call(op, arg, userId, sessionId, threw, returned, prompts, outcomes, responses) ==
    [op |-> op, arg |-> arg, userId |-> userId, sessionId |-> sessionId, threw |-> threw,
     returned |-> returned, prompts |-> prompts, outcomes |-> outcomes,
     responses |-> responses]

Init ==
    /\ strategies = EmptyObj
    /\ agents = EmptyObj
    /\ sessions = <<>>
    /\ heap = <<>>
    /\ sessionStats =
        [totalSessions |-> 0, activeSessions |-> 0, completedSessions |-> 0,
         totalMessages |-> 0, errorCount |-> 0]
    /\ last = Call("constructor", "", "", 0, "", <<>>, <<>>, <<>>, <<>>)
    /\ pending = <<>>
    /\ overlapped = FALSE

SessionIds == 1..Len(sessions)

\* a Map without the entry of key
Without(map, key) == [k \in (DOMAIN map) \ {key} |-> map[k]]

\* !v for a string or a missing property
Falsy(v) == v \in {Undefined, ""}

----------------------------------------------------------------------------
(* Language models (getLanguageModel, src/src/types/index.d.ts) *)

\* what anthropic(id) and google(id) return
LanguageModel(provider, modelId) == [provider |-> provider, modelId |-> modelId]

MODEL_CONFIGS ==
    [anthropic |->
        [k \in {"claude-3-5-sonnet-20241022", "claude-3-5-haiku-20241022",
                "claude-3-opus-20240229", "default"} |->
            LanguageModel("anthropic",
                IF k = "default" THEN "claude-3-5-sonnet-20241022" ELSE k)],
     google |->
        [k \in {"gemini-1.5-pro-latest", "gemini-2.5-flash", "gemini-pro",
                "default"} |->
            LanguageModel("google",
                IF k = "default" THEN "gemini-2.5-flash" ELSE k)]]

\* property names every object literal inherits, which `in` also finds
InheritedKeys == {"toString"}

\* what calling an inherited method as a model factory returns: no model
NotAModel == LanguageModel("none", "[object Object]")

getLanguageModel(strategy) ==
    LET provider == IF Falsy(strategy.llm_provider) THEN "google"
                    ELSE strategy.llm_provider
        modelName == strategy.model
    IN IF provider \notin DOMAIN MODEL_CONFIGS
       THEN MODEL_CONFIGS.google["default"]
       ELSE IF ~Falsy(modelName)
                /\ modelName \in (DOMAIN MODEL_CONFIGS[provider]) \cup InheritedKeys
       THEN IF modelName \in DOMAIN MODEL_CONFIGS[provider]
            THEN MODEL_CONFIGS[provider][modelName]
            ELSE NotAModel
       ELSE MODEL_CONFIGS[provider]["default"]

----------------------------------------------------------------------------
(* Strategy registry *)

\* validateStrategy without its last check
validateStrategy_NoGuidelines(strategy) ==
    IF Falsy(strategy.name) THEN "Strategy must have a name"
    ELSE IF Falsy(strategy.primary_goal) THEN "Strategy must have a primary_goal"
    ELSE IF Falsy(strategy.domain) THEN "Strategy must have a domain"
    ELSE IF Falsy(strategy.personality) THEN "Strategy must have personality settings"
    ELSE ""

\* the message validateStrategy (and the name check before it) throws, or ""
validateStrategy(strategy) ==
    IF Falsy(strategy.name) THEN "Strategy must have a name"
    ELSE IF Falsy(strategy.primary_goal) THEN "Strategy must have a primary_goal"
    ELSE IF Falsy(strategy.domain) THEN "Strategy must have a domain"
    ELSE IF Falsy(strategy.personality) THEN "Strategy must have personality settings"
    ELSE IF Falsy(strategy.guidelines) THEN "Strategy must have guidelines"
    ELSE ""

\* registerStrategy storing the strategy without creating its Agent
registerStrategy_NoAgent(strategy) ==
    /\ IF validateStrategy(strategy) # ""
       THEN /\ UNCHANGED strategies
            /\ last' = Call("registerStrategy", strategy, "", 0,
                            validateStrategy(strategy), <<>>, <<>>, <<>>, <<>>)
       ELSE /\ strategies' = Assign(strategies, (strategy.name :> strategy))
            /\ last' = Call("registerStrategy", strategy, "", 0, "", <<>>, <<>>, <<>>, <<>>)
    /\ UNCHANGED <<agents, sessions, heap, sessionStats, pending, overlapped>>

\* registerStrategy keeping the strategy already registered under the name
registerStrategy_KeepsFirst(strategy) ==
    /\ IF validateStrategy(strategy) # ""
       THEN /\ UNCHANGED <<strategies, agents>>
            /\ last' = Call("registerStrategy", strategy, "", 0,
                            validateStrategy(strategy), <<>>, <<>>, <<>>, <<>>)
       ELSE /\ strategies' = Assign((strategy.name :> strategy), strategies)
            /\ agents' = Assign((strategy.name :> strategy), agents)
            /\ last' = Call("registerStrategy", strategy, "", 0, "",
                            <<>>, <<>>, <<>>, <<>>)
    /\ UNCHANGED <<sessions, heap, sessionStats, pending, overlapped>>

registerStrategy(strategy) ==
    /\ IF validateStrategy(strategy) # ""
       THEN /\ UNCHANGED <<strategies, agents>>
            /\ last' = Call("registerStrategy", strategy, "", 0,
                            validateStrategy(strategy), <<>>, <<>>, <<>>, <<>>)
       ELSE /\ strategies' = Assign(strategies, (strategy.name :> strategy))
            /\ agents' = Assign(agents, (strategy.name :> strategy))
            /\ last' = Call("registerStrategy", strategy, "", 0, "", <<>>, <<>>, <<>>, <<>>)
    /\ UNCHANGED <<sessions, heap, sessionStats, pending, overlapped>>

\* getStrategy falling back to a registered strategy for an unknown name
getStrategy_Default(name) ==
    IF name \in DOMAIN strategies THEN <<strategies[name]>>
    ELSE IF DOMAIN strategies # {}
    THEN <<strategies[CHOOSE n \in DOMAIN strategies : TRUE]>>
    ELSE <<>>

getStrategy(name) ==
    IF name \in DOMAIN strategies THEN <<strategies[name]>> ELSE <<>>

\* unregisterStrategy without agents.delete
unregisterStrategy_KeepsAgent(name) ==
    /\ strategies' = Without(strategies, name)
    /\ last' = Call("unregisterStrategy", name, "", 0, "",
                    <<name \in DOMAIN strategies>>, <<>>, <<>>, <<>>)
    /\ UNCHANGED <<agents, sessions, heap, sessionStats, pending, overlapped>>

unregisterStrategy(name) ==
    /\ strategies' = Without(strategies, name)
    /\ agents' = Without(agents, name)
    /\ last' = Call("unregisterStrategy", name, "", 0, "",
                    <<name \in DOMAIN strategies>>, <<>>, <<>>, <<>>)
    /\ UNCHANGED <<sessions, heap, sessionStats, pending, overlapped>>

----------------------------------------------------------------------------
(* Session store helpers *)

Min(S) == CHOOSE x \in S : \A y \in S : x <= y

\* findSessionByUser filtering on the wrong status
findSessionByUser_WrongStatus(userId) ==
    LET hits == {i \in SessionIds :
                    /\ sessions[i].user_id = userId
                    /\ sessions[i].status = "completed"}
    IN IF hits = {} THEN 0 ELSE Min(hits)

\* the first active session of the user in insertion order, 0 when none
findSessionByUser(userId) ==
    LET hits == {i \in SessionIds :
                    /\ sessions[i].user_id = userId
                    /\ sessions[i].status = "active"}
    IN IF hits = {} THEN 0 ELSE Min(hits)

\* a merge in which the value already stored wins
updateSessionContext_FirstWins(hp, ref, updates) ==
    [hp EXCEPT ![ref] = Assign(updates, @)]

\* updateSessionContext: Object.assign on the session's user_inputs object
updateSessionContext(hp, ref, updates) ==
    [hp EXCEPT ![ref] = Assign(@, updates)]

Message(role, content) == [role |-> role, content |-> content]

\* endSession parking the session instead of completing it
endedStatus_Paused == "paused"

\* the status and counters endSession writes for a stored session
endedStatus == "completed"

\* endSession forgetting to count the completed session
endedStats_NotCounted(stats) ==
    [stats EXCEPT !.activeSessions = @ - 1]

endedStats(stats) ==
    [stats EXCEPT !.activeSessions = @ - 1, !.completedSessions = @ + 1]

endedSessions(ss, sessionId) ==
    [ss EXCEPT ![sessionId].status = endedStatus]

\* whether endSession finds the session (its only check)
endSessionFinds(sessionId) == sessionId \in SessionIds

\* the work done so far, as the counters record it
CallsCounted ==
    sessionStats.totalSessions + sessionStats.totalMessages
        + sessionStats.completedSessions

----------------------------------------------------------------------------
(* endSession *)

endSession(sessionId) ==
    /\ IF ~endSessionFinds(sessionId)
       THEN /\ UNCHANGED <<sessions, sessionStats>>
            /\ last' = Call("endSession", "", "", sessionId, "", <<FALSE>>, <<>>, <<>>, <<>>)
       ELSE /\ CallsCounted < MaxCalls
            /\ sessions' = endedSessions(sessions, sessionId)
            /\ sessionStats' = endedStats(sessionStats)
            /\ last' = Call("endSession", "", "", sessionId, "", <<TRUE>>, <<>>, <<>>, <<>>)
    /\ overlapped' = (overlapped \/ pending # <<>>)
    /\ UNCHANGED <<strategies, agents, heap, pending>>

----------------------------------------------------------------------------
(* startSession *)

SessionStartedPrompt == "[SESSION_STARTED]"

\* a new context that counts the synthetic first turn
NewContext_Counted(sessionId, userId, strategyName, ref) ==
    [session_id |-> sessionId,
     user_id |-> userId,
     strategy_name |-> strategyName,
     status |-> "active",
     current_goal |-> "initial_engagement",
     messages_count |-> 1,
     user_inputs |-> ref,
     user_profile |-> EmptyObj,
     messages |-> <<>>,
     agent_memory |->
        [last_action |-> "session_started", reasoning_history |-> <<>>,
         failed_attempts |-> <<>>, successful_patterns |-> <<>>]]

NewContext(sessionId, userId, strategyName, ref) ==
    [session_id |-> sessionId,
     user_id |-> userId,
     strategy_name |-> strategyName,
     status |-> "active",
     current_goal |-> "initial_engagement",
     messages_count |-> 0,
     user_inputs |-> ref,
     user_profile |-> EmptyObj,
     messages |-> <<>>,
     agent_memory |->
        [last_action |-> "session_started", reasoning_history |-> <<>>,
         failed_attempts |-> <<>>, successful_patterns |-> <<>>]]

\* the Session record handed back; context is the stored SessionContext,
\* named by its id
SessionOf(sessionId, initialResponse) ==
    [session_id |-> sessionId, status |-> "started",
     initial_message |-> initialResponse.message, context |-> sessionId]

\* startSession storing the reasoning trace instead of the message
initialMessage_Reasoning(initialResponse) ==
    Message("assistant", initialResponse.reasoning)

\* the message startSession stores for the synthetic first turn
initialMessage_AsUser(initialResponse) ==
    Message("user", initialResponse.message)

\* the message startSession stores for the synthetic first turn
initialMessage(initialResponse) ==
    Message("assistant", initialResponse.message)

\* hp is the heap holding the object the caller passes as initialContext (or
\* the fresh {} that replaces an undefined one) at index ref
startSession(userId, strategyName, hp, ref, outcome) ==
    /\ IF getStrategy(strategyName) = <<>>
       THEN /\ UNCHANGED <<sessions, heap, sessionStats>>
            /\ last' = Call("startSession", strategyName, userId, 0,
                            "Strategy not found", <<>>, <<>>, <<>>, <<>>)
       ELSE IF strategyName \notin DOMAIN agents
       THEN /\ UNCHANGED <<sessions, heap, sessionStats>>
            /\ last' = Call("startSession", strategyName, userId, 0,
                            "Agent for strategy not found", <<>>, <<>>, <<>>, <<>>)
       ELSE LET existingSession == findSessionByUser(userId)
                ended == IF existingSession # 0
                         THEN endedSessions(sessions, existingSession)
                         ELSE sessions
                endStats == IF existingSession # 0
                            THEN endedStats(sessionStats)
                            ELSE sessionStats
                sessionId == Len(sessions) + 1
                context == NewContext(sessionId, userId, strategyName, ref)
                initialResponse ==
                    processPrompt(SessionStartedPrompt, context, outcome)
            IN /\ CallsCounted < MaxCalls
               /\ sessions' = Append(ended,
                    [context EXCEPT
                        !.messages = Append(@, initialMessage(initialResponse))])
               /\ heap' = updateSessionContext(hp, ref,
                                               initialResponse.context_updates)
               /\ sessionStats' =
                    [endStats EXCEPT !.totalSessions = @ + 1,
                                     !.activeSessions = @ + 1]
               /\ last' = Call("startSession", strategyName, userId, sessionId, "",
                               <<SessionOf(sessionId, initialResponse)>>,
                               <<SessionStartedPrompt>>, <<outcome>>,
                               <<initialResponse>>)
    /\ UNCHANGED <<strategies, agents, pending, overlapped>>

----------------------------------------------------------------------------
(* sendMessage *)

CatchMessage == "I'm sorry, I encountered an issue. Could you please try again?"

\* whether the awaited processPrompt rejects, which is the only way the try
\* block of sendMessage could reach its catch: processPrompt catches every
\* failure of its own round, so it never does
processPromptRejects(outcome) == FALSE

\* sendMessage escalating on the action tag instead of the meta flag
shouldEscalate_ByAction(agentResponse) ==
    agentResponse.action_taken = "escalate"

\* the escalation test of sendMessage
shouldEscalate(agentResponse) == agentResponse.meta.should_escalate

OutputOf(sessionId, agentResponse, status) ==
    [message |-> agentResponse.message,
     session_id |-> sessionId,
     agent_reasoning |-> agentResponse.reasoning,
     session_status |-> status,
     suggested_actions |->
        IF Falsy(agentResponse.suggested_next_user_action) THEN <<>>
        ELSE <<agentResponse.suggested_next_user_action>>]

CatchOutput(sessionId, errorMessage) ==
    [message |-> CatchMessage,
     session_id |-> sessionId,
     agent_reasoning |-> "Error: " \o errorMessage,
     session_status |-> "active",
     suggested_actions |-> <<>>]

\* sendMessage without its status check
sendMessagePrecondition_NoStatusCheck(sessionId) ==
    IF sessionId \notin SessionIds THEN "AI Session not found"
    ELSE IF sessions[sessionId].strategy_name \notin DOMAIN agents
    THEN "Agent for strategy not found"
    ELSE ""

\* the caller error sendMessage throws before touching anything, or ""
sendMessagePrecondition(sessionId) ==
    IF sessionId \notin SessionIds THEN "AI Session not found"
    ELSE IF sessions[sessionId].status # "active" THEN "AI Session is not active"
    ELSE IF sessions[sessionId].strategy_name \notin DOMAIN agents
    THEN "Agent for strategy not found"
    ELSE ""

\* sendMessage asking the agent a second time when its round failed
sendMessage_RetriesOnce(sessionId, message, outcome) ==
    /\ IF sendMessagePrecondition(sessionId) # ""
       THEN /\ UNCHANGED <<sessions, heap, sessionStats>>
            /\ last' = Call("sendMessage", message, "", sessionId,
                            sendMessagePrecondition(sessionId),
                            <<>>, <<>>, <<>>, <<>>)
       ELSE LET context == sessions[sessionId]
                received ==
                    [context EXCEPT
                        !.messages = Append(@, Message("user", message)),
                        !.messages_count = @ + 1]
                counted == [sessionStats EXCEPT !.totalMessages = @ + 1]
                agentResponse == processPrompt(message, received, outcome)
                answered ==
                    [received EXCEPT
                        !.messages =
                            Append(@, Message("assistant", agentResponse.message)),
                        !.messages_count = @ + 1]
                escalate == shouldEscalate(agentResponse)
                final == IF escalate
                         THEN [answered EXCEPT !.status = "escalated"]
                         ELSE answered
            IN /\ CallsCounted < MaxCalls
               /\ IF processPromptRejects(outcome)
                  THEN /\ sessions' = [sessions EXCEPT ![sessionId] = received]
                       /\ UNCHANGED heap
                       /\ sessionStats' =
                            [counted EXCEPT !.errorCount = @ + 1]
                       /\ last' = Call("sendMessage", message, "", sessionId, "",
                            <<CatchOutput(sessionId, thrownMessage(outcome))>>,
                            <<message>>, <<outcome>>, <<>>)
                  ELSE /\ sessions' = [sessions EXCEPT ![sessionId] = final]
                       /\ heap' = updateSessionContext(heap, context.user_inputs,
                                        agentResponse.context_updates)
                       /\ sessionStats' =
                            IF escalate
                            THEN [counted EXCEPT !.activeSessions = @ - 1]
                            ELSE counted
                       /\ last' = Call("sendMessage", message, "", sessionId, "",
                            <<OutputOf(sessionId, agentResponse, final.status)>>,
                            IF OracleFailed(outcome)
                            THEN <<message, message>> ELSE <<message>>,
                            IF OracleFailed(outcome)
                            THEN <<outcome, outcome>> ELSE <<outcome>>,
                            <<agentResponse>>)
    /\ UNCHANGED <<strategies, agents, pending, overlapped>>

sendMessage(sessionId, message, outcome) ==
    /\ IF sendMessagePrecondition(sessionId) # ""
       THEN /\ UNCHANGED <<sessions, heap, sessionStats>>
            /\ last' = Call("sendMessage", message, "", sessionId,
                            sendMessagePrecondition(sessionId),
                            <<>>, <<>>, <<>>, <<>>)
       ELSE LET context == sessions[sessionId]
                received ==
                    [context EXCEPT
                        !.messages = Append(@, Message("user", message)),
                        !.messages_count = @ + 1]
                counted == [sessionStats EXCEPT !.totalMessages = @ + 1]
                agentResponse == processPrompt(message, received, outcome)
                answered ==
                    [received EXCEPT
                        !.messages =
                            Append(@, Message("assistant", agentResponse.message)),
                        !.messages_count = @ + 1]
                escalate == shouldEscalate(agentResponse)
                final == IF escalate
                         THEN [answered EXCEPT !.status = "escalated"]
                         ELSE answered
            IN /\ CallsCounted < MaxCalls
               /\ IF processPromptRejects(outcome)
                  THEN /\ sessions' = [sessions EXCEPT ![sessionId] = received]
                       /\ UNCHANGED heap
                       /\ sessionStats' =
                            [counted EXCEPT !.errorCount = @ + 1]
                       /\ last' = Call("sendMessage", message, "", sessionId, "",
                            <<CatchOutput(sessionId, thrownMessage(outcome))>>,
                            <<message>>, <<outcome>>, <<>>)
                  ELSE /\ sessions' = [sessions EXCEPT ![sessionId] = final]
                       /\ heap' = updateSessionContext(heap, context.user_inputs,
                                        agentResponse.context_updates)
                       /\ sessionStats' =
                            IF escalate
                            THEN [counted EXCEPT !.activeSessions = @ - 1]
                            ELSE counted
                       /\ last' = Call("sendMessage", message, "", sessionId, "",
                            <<OutputOf(sessionId, agentResponse, final.status)>>,
                            <<message>>, <<outcome>>, <<agentResponse>>)
    /\ UNCHANGED <<strategies, agents, pending, overlapped>>

----------------------------------------------------------------------------
(* Read-only accessors *)

getActiveSarufiSessions ==
    {i \in SessionIds : sessions[i].status = "active"}

\* getStats reporting the incrementally maintained counter
getStats_FromCounter ==
    [total_sessions |-> sessionStats.totalSessions,
     active_sessions |-> sessionStats.activeSessions,
     completed_sessions |-> sessionStats.completedSessions,
     strategies_registered |-> Cardinality(DOMAIN strategies),
     total_messages_processed |-> sessionStats.totalMessages]

getStats ==
    [total_sessions |-> sessionStats.totalSessions,
     active_sessions |-> Cardinality(getActiveSarufiSessions),
     completed_sessions |-> sessionStats.completedSessions,
     strategies_registered |-> Cardinality(DOMAIN strategies),
     total_messages_processed |-> sessionStats.totalMessages]

\* a JavaScript number that is the quotient num / den; 0 / 0 is NaN
Divide(num, den) == [num |-> num, den |-> den]

Zero == Divide(0, 1)

One == Divide(1, 1)

\* x || 0: NaN and 0 are the falsy numbers
OrZero(x) == IF x.num = 0 THEN Zero ELSE x

\* Math.max(0, Math.min(1, x)) for a quotient with a positive denominator
Clip(x) ==
    IF x.num > x.den THEN One
    ELSE IF x.num < 0 THEN Zero
    ELSE x

\* the sessions of the store bound to the strategy name
sessionsOf(strategyName) ==
    {i \in SessionIds : sessions[i].strategy_name = strategyName}

\* user_inputs[key] === value
inputIs(i, key, value) ==
    /\ key \in DOMAIN heap[sessions[i].user_inputs]
    /\ heap[sessions[i].user_inputs][key] = value

\* what the loop of calculatePerformanceScore adds for one session, in tenths
sessionScore(i) ==
    (IF sessions[i].status = "completed" THEN 10 ELSE 0)
  + (IF inputIs(i, "decision_quality", "high") THEN 5 ELSE 0)
  + (IF inputIs(i, "user_sentiment", "positive") THEN 3 ELSE 0)
  - (IF sessions[i].status = "escalated" THEN 5 ELSE 0)

RECURSIVE scoreOf(_)
\* the loop of calculatePerformanceScore over the sessions ids, in tenths
scoreOf(ids) ==
    IF ids = {} THEN 0
    ELSE LET i == CHOOSE x \in ids : TRUE
         IN sessionScore(i) + scoreOf(ids \ {i})

\* calculatePerformanceScore returning the average as it is
calculatePerformanceScore_Unclipped(ids) ==
    IF Cardinality(ids) = 0 THEN Zero
    ELSE Divide(scoreOf(ids), 10 * Cardinality(ids))

calculatePerformanceScore(ids) ==
    IF Cardinality(ids) = 0 THEN Zero
    ELSE Clip(Divide(scoreOf(ids), 10 * Cardinality(ids)))

RECURSIVE messagesCounted(_)
\* sessions.reduce((sum, c) => sum + c.messages_count, 0)
messagesCounted(ids) ==
    IF ids = {} THEN 0
    ELSE LET i == CHOOSE x \in ids : TRUE
         IN sessions[i].messages_count + messagesCounted(ids \ {i})

\* getStrategyPerformance returning the average without its || 0
getStrategyPerformance_Unguarded(strategyName) ==
    LET ids == sessionsOf(strategyName)
        totalSessions == Cardinality(ids)
        completedSessions ==
            Cardinality({i \in ids : sessions[i].status = "completed"})
        escalatedSessions ==
            Cardinality({i \in ids : sessions[i].status = "escalated"})
        averageMessages == Divide(messagesCounted(ids), totalSessions)
    IN [strategy_name |-> strategyName,
        total_sessions |-> totalSessions,
        completion_rate |->
            IF totalSessions > 0 THEN Divide(completedSessions, totalSessions)
            ELSE Zero,
        escalation_rate |->
            IF totalSessions > 0 THEN Divide(escalatedSessions, totalSessions)
            ELSE Zero,
        average_messages |-> averageMessages,
        performance_score |-> calculatePerformanceScore(ids)]

getStrategyPerformance(strategyName) ==
    LET ids == sessionsOf(strategyName)
        totalSessions == Cardinality(ids)
        completedSessions ==
            Cardinality({i \in ids : sessions[i].status = "completed"})
        escalatedSessions ==
            Cardinality({i \in ids : sessions[i].status = "escalated"})
        averageMessages == Divide(messagesCounted(ids), totalSessions)
    IN [strategy_name |-> strategyName,
        total_sessions |-> totalSessions,
        completion_rate |->
            IF totalSessions > 0 THEN Divide(completedSessions, totalSessions)
            ELSE Zero,
        escalation_rate |->
            IF totalSessions > 0 THEN Divide(escalatedSessions, totalSessions)
            ELSE Zero,
        average_messages |-> OrZero(averageMessages),
        performance_score |-> calculatePerformanceScore(ids)]

----------------------------------------------------------------------------
(* The API calls, each run to completion before the next one begins *)

\* one valid strategy and one with an empty name
SomeStrategies == {ValidStrategy, [ValidStrategy EXCEPT !.name = ""]}

SomeNames == {"sales", "ghost"}

RegisterStrategy == \E strategy \in SomeStrategies : registerStrategy(strategy)

UnregisterStrategy == \E name \in SomeNames : unregisterStrategy(name)

\* initialContext omitted: user_inputs is a fresh {}. The synthetic first
\* turn ends with a decision or with a failed round.
StartSession ==
    \E userId \in Users, strategyName \in SomeNames,
       outcome \in {Decided(BaseDecision)} :
        startSession(userId, strategyName, Append(heap, EmptyObj),
                     Len(heap) + 1, outcome)

StartSessionOracleFails ==
    \E userId \in Users, strategyName \in SomeNames :
        startSession(userId, strategyName, Append(heap, EmptyObj),
                     Len(heap) + 1, NoAnswer)

SendMessage ==
    \E sessionId \in 1..(Len(sessions) + 1), message \in UserTexts,
       decision \in {EscalatingDecision, CloseActionOnly, EscalateActionOnly} :
        sendMessage(sessionId, message, Decided(decision))

SendMessageOracleFails ==
    \E sessionId \in 1..(Len(sessions) + 1), message \in UserTexts :
        \/ \E e \in OracleErrors : sendMessage(sessionId, message, Failed(e))
        \/ sendMessage(sessionId, message, NoAnswer)

EndSession == \E sessionId \in 1..(Len(sessions) + 1) : endSession(sessionId)

Next ==
    \/ RegisterStrategy
    \/ UnregisterStrategy
    \/ StartSession
    \/ StartSessionOracleFails
    \/ SendMessage
    \/ SendMessageOracleFails
    \/ EndSession

Spec == Init /\ [][Next]_vars

----------------------------------------------------------------------------
(* The registry under every strategy input, with sessions bound to the
   registered names *)

RegisterAnyStrategy ==
    \E strategy \in StrategyInputs : registerStrategy(strategy)

UnregisterAnyStrategy == \E name \in StrategyNames : unregisterStrategy(name)

StartSessionAnyStrategy ==
    \E strategyName \in StrategyNames :
        startSession("u1", strategyName, Append(heap, EmptyObj),
                     Len(heap) + 1, Decided(BaseDecision))

NextRegistry ==
    \/ RegisterAnyStrategy
    \/ UnregisterAnyStrategy
    \/ StartSessionAnyStrategy
    \/ EndSession

SpecRegistry == Init /\ [][NextRegistry]_vars

----------------------------------------------------------------------------
(* The Agent called directly, as testCorrectToolFormat does: a caller holds
   an Agent of the strategy and passes it the context of a stored session *)

\* processPrompt writing its delta into the context it was given
agentProcessPrompt_AppliesDelta(sessionId, prompt, outcome) ==
    LET response == processPrompt(prompt, sessions[sessionId], outcome)
    IN /\ last' = Call("processPrompt", prompt, "", sessionId, "",
                       <<response>>, <<prompt>>, <<outcome>>, <<response>>)
       /\ heap' = updateSessionContext(heap, sessions[sessionId].user_inputs,
                                       response.context_updates)
       /\ UNCHANGED <<strategies, agents, sessions, sessionStats, pending, overlapped>>

agentProcessPrompt(sessionId, prompt, outcome) ==
    LET response == processPrompt(prompt, sessions[sessionId], outcome)
    IN /\ last' = Call("processPrompt", prompt, "", sessionId, "",
                       <<response>>, <<prompt>>, <<outcome>>, <<response>>)
       /\ UNCHANGED <<strategies, agents, sessions, heap, sessionStats, pending, overlapped>>

RegisterValidStrategy == registerStrategy(ValidStrategy)

StartSessionForAgent ==
    startSession("u1", "sales", Append(heap, EmptyObj), Len(heap) + 1,
                 Decided(BaseDecision))

AgentProcessPrompt ==
    \E sessionId \in SessionIds, prompt \in UserTexts,
       decision \in QualityDecisions \cup {CollidingDecision} :
        agentProcessPrompt(sessionId, prompt, Decided(decision))

AgentProcessPromptFails ==
    \E sessionId \in SessionIds, prompt \in UserTexts :
        \/ \E e \in OracleErrors : agentProcessPrompt(sessionId, prompt, Failed(e))
        \/ agentProcessPrompt(sessionId, prompt, NoAnswer)

NextAgent ==
    \/ RegisterValidStrategy
    \/ StartSessionForAgent
    \/ AgentProcessPrompt
    \/ AgentProcessPromptFails

SpecAgent == Init /\ [][NextAgent]_vars

----------------------------------------------------------------------------
(* Sessions started with a caller's initialContext literal, then turns whose
   deltas overwrite, add and leave keys of user_inputs *)

StartSessionWithContext ==
    \E initialContext \in InitialContexts,
       outcome \in {Decided(BaseDecision), NoAnswer} :
        startSession("u1", "sales", Append(heap, initialContext),
                     Len(heap) + 1, outcome)

SendMessageMerging ==
    \E sessionId \in 1..(Len(sessions) + 1), message \in UserTexts,
       decision \in {BaseDecision, CloseActionOnly, CollidingDecision} :
        sendMessage(sessionId, message, Decided(decision))

NextContext ==
    \/ RegisterValidStrategy
    \/ StartSessionWithContext
    \/ SendMessageMerging
    \/ SendMessageOracleFails

SpecContext == Init /\ [][NextContext]_vars

----------------------------------------------------------------------------
(* Sessions of two strategies whose outcomes differ in status, recorded
   sentiment and recorded decision quality *)

\* an initialContext that already carries a decision-quality tag
TaggedContext == [decision_quality |-> "high"]

RegisterScoredStrategy ==
    \E strategy \in {ValidStrategy, [ValidStrategy EXCEPT !.name = "support"]} :
        registerStrategy(strategy)

StartSessionScored ==
    \E userId \in Users, strategyName \in {"sales", "support"},
       initialContext \in {EmptyObj, TaggedContext},
       outcome \in {Decided(BaseDecision), NoAnswer} :
        startSession(userId, strategyName, Append(heap, initialContext),
                     Len(heap) + 1, outcome)

SendMessageScored ==
    \E sessionId \in SessionIds, message \in UserTexts :
        sendMessage(sessionId, message, Decided(EscalatingDecision))

EndSessionScored == \E sessionId \in SessionIds : endSession(sessionId)

NextPerformance ==
    \/ RegisterScoredStrategy
    \/ StartSessionScored
    \/ SendMessageScored
    \/ EndSessionScored

SpecPerformance == Init /\ [][NextPerformance]_vars

----------------------------------------------------------------------------
(* Sessions whose synthetic first turn ends in every kind of outcome, started
   with and without a decision-quality tag in the initialContext, then turns
   whose decisions do or do not supply that tag themselves *)

\* a decision whose own context_updates carry a decision-quality tag
TaggingDecision ==
    [BaseDecision EXCEPT
        !.action_execution.context_updates = [decision_quality |-> "high"]]

FirstTurnContexts == {EmptyObj, TaggedContext}

StartSessionFirstTurn ==
    \E userId \in Users, initialContext \in FirstTurnContexts,
       outcome \in {Decided(BaseDecision), Decided(EscalatingDecision),
                    Decided(TaggingDecision), NoAnswer} :
        startSession(userId, "sales", Append(heap, initialContext),
                     Len(heap) + 1, outcome)

SendMessageTagging ==
    \E sessionId \in SessionIds, message \in UserTexts,
       outcome \in {Decided(BaseDecision), Decided(TaggingDecision), NoAnswer} :
        sendMessage(sessionId, message, outcome)

NextFirstTurn ==
    \/ RegisterValidStrategy
    \/ StartSessionFirstTurn
    \/ SendMessageTagging
    \/ EndSession

SpecFirstTurn == Init /\ [][NextFirstTurn]_vars

----------------------------------------------------------------------------
(* Sessions of two users started by a caller that keeps its initialContext
   object and may pass the same object again: ref is either the index of an
   object passed before or that of a new literal *)

StartSessionSharing ==
    \E userId \in Users, initialContext \in InitialContexts,
       ref \in 1..(Len(heap) + 1) :
        startSession(userId, "sales",
                     IF ref \in DOMAIN heap
                     THEN heap
                     ELSE Append(heap, initialContext),
                     ref, Decided(BaseDecision))

SendMessageShared ==
    \E sessionId \in SessionIds, message \in UserTexts,
       decision \in {BaseDecision, CloseActionOnly} :
        sendMessage(sessionId, message, Decided(decision))

NextSharing ==
    \/ RegisterValidStrategy
    \/ StartSessionSharing
    \/ SendMessageShared
    \/ EndSession

SpecSharing == Init /\ [][NextSharing]_vars

----------------------------------------------------------------------------
(* Agents constructed for strategies of every documented provider *)

Providers == {"openai", "anthropic", "google", "mistral", Undefined}

ModelNames ==
    {"claude-3-5-sonnet-20241022", "claude-3-5-haiku-20241022",
     "claude-3-opus-20240229", "claude-3-haiku-20240307",
     "gemini-1.5-pro-latest", "gemini-2.5-flash", "gemini-pro",
     "gpt-4o", "default", "toString", Undefined}

ProviderStrategies ==
    { [name |-> n, domain |-> "retail", primary_goal |-> "sell",
       personality |-> "friendly", guidelines |-> "rules",
       llm_provider |-> p, model |-> m] :
        n \in {"sales", "support"}, p \in Providers, m \in ModelNames }

\* new Agent(strategy): the constructor's only computation is the model
newAgent(strategy) ==
    /\ last' = Call("newAgent", strategy, "", 0, "",
                    <<getLanguageModel(strategy)>>, <<>>, <<>>, <<>>)
    /\ UNCHANGED <<strategies, agents, sessions, heap, sessionStats, pending, overlapped>>

NewAgent == \E strategy \in ProviderStrategies : newAgent(strategy)

NextProviders == NewAgent

SpecProviders == Init /\ [][NextProviders]_vars

----------------------------------------------------------------------------
(* Calls that overlap: startSession and sendMessage are async methods, so a
   caller that does not await one call before making the next has several
   calls suspended at once. Each runs without interruption from one await to
   the next: startSession awaits endSession (when the user has an active
   session) and then the agent, sendMessage awaits the agent. *)

\* a call suspended at an await: stage "endSession" is the await of line 108,
\* stage "oracle" the await on agent.processPrompt
Suspended(op, stage, userId, strategyName, sessionId, message) ==
    [op |-> op, stage |-> stage, userId |-> userId,
     strategyName |-> strategyName, sessionId |-> sessionId,
     message |-> message]

RemoveAt(seq, i) == SubSeq(seq, 1, i - 1) \o SubSeq(seq, i + 1, Len(seq))

\* the call reaches an await while those of pending are still suspended
suspend(call) ==
    /\ Len(pending) < MaxPending
    /\ pending' = Append(pending, call)
    /\ overlapped' = (overlapped \/ pending # <<>>)

\* endSession has no await inside, so the promise startSession awaits is
\* already settled and its continuation runs before any oracle answer arrives
awaitingEnd == \E i \in DOMAIN pending : pending[i].stage = "endSession"

\* lines 112-134: the context is created, stored and counted
created_Uncounted(ss, stats, userId, strategyName) ==
    /\ sessions' = Append(ss, NewContext(Len(ss) + 1, userId, strategyName,
                                         Len(heap) + 1))
    /\ heap' = Append(heap, EmptyObj)
    /\ sessionStats' = [stats EXCEPT !.activeSessions = @ + 1]

created(ss, stats, userId, strategyName) ==
    /\ sessions' = Append(ss, NewContext(Len(ss) + 1, userId, strategyName,
                                         Len(heap) + 1))
    /\ heap' = Append(heap, EmptyObj)
    /\ sessionStats' = [stats EXCEPT !.totalSessions = @ + 1,
                                     !.activeSessions = @ + 1]

\* startSession from its call to its first await
startSessionCalled(userId, strategyName) ==
    /\ IF getStrategy(strategyName) = <<>>
       THEN /\ UNCHANGED <<sessions, heap, sessionStats, pending>>
            /\ overlapped' = (overlapped \/ pending # <<>>)
            /\ last' = Call("startSession", strategyName, userId, 0,
                            "Strategy not found", <<>>, <<>>, <<>>, <<>>)
       ELSE IF strategyName \notin DOMAIN agents
       THEN /\ UNCHANGED <<sessions, heap, sessionStats, pending>>
            /\ overlapped' = (overlapped \/ pending # <<>>)
            /\ last' = Call("startSession", strategyName, userId, 0,
                            "Agent for strategy not found", <<>>, <<>>, <<>>, <<>>)
       ELSE /\ CallsCounted < MaxCalls
            /\ UNCHANGED last
            /\ IF findSessionByUser(userId) # 0
               THEN /\ sessions' = endedSessions(sessions, findSessionByUser(userId))
                    /\ sessionStats' = endedStats(sessionStats)
                    /\ UNCHANGED heap
                    /\ suspend(Suspended("startSession", "endSession", userId,
                                         strategyName, 0, ""))
               ELSE /\ created(sessions, sessionStats, userId, strategyName)
                    /\ suspend(Suspended("startSession", "oracle", userId,
                                         strategyName, Len(sessions) + 1, ""))
    /\ UNCHANGED <<strategies, agents>>

\* startSession resuming after the await on endSession and checking the
\* user's sessions again before it creates one
startSessionAfterEnd_ChecksAgain(i) ==
    /\ i \in DOMAIN pending
    /\ pending[i].stage = "endSession"
    /\ LET found == findSessionByUser(pending[i].userId)
       IN created(IF found # 0 THEN endedSessions(sessions, found) ELSE sessions,
                  IF found # 0 THEN endedStats(sessionStats) ELSE sessionStats,
                  pending[i].userId, pending[i].strategyName)
    /\ pending' = [pending EXCEPT ![i].stage = "oracle",
                                  ![i].sessionId = Len(sessions) + 1]
    /\ UNCHANGED <<strategies, agents, last, overlapped>>

\* startSession resuming after the await on endSession, up to the await on
\* the agent
startSessionAfterEnd(i) ==
    /\ i \in DOMAIN pending
    /\ pending[i].stage = "endSession"
    /\ created(sessions, sessionStats, pending[i].userId,
               pending[i].strategyName)
    /\ pending' = [pending EXCEPT ![i].stage = "oracle",
                                  ![i].sessionId = Len(sessions) + 1]
    /\ UNCHANGED <<strategies, agents, last, overlapped>>

\* startSession from the agent's answer to its return
startSessionAnswered(i, outcome) ==
    /\ i \in DOMAIN pending
    /\ pending[i].op = "startSession"
    /\ pending[i].stage = "oracle"
    /\ ~awaitingEnd
    /\ LET sessionId == pending[i].sessionId
           context == sessions[sessionId]
           initialResponse ==
                processPrompt(SessionStartedPrompt, context, outcome)
       IN /\ sessions' = [sessions EXCEPT ![sessionId].messages =
                                Append(@, initialMessage(initialResponse))]
          /\ heap' = updateSessionContext(heap, context.user_inputs,
                                          initialResponse.context_updates)
          /\ last' = Call("startSession", pending[i].strategyName,
                          pending[i].userId, sessionId, "",
                          <<SessionOf(sessionId, initialResponse)>>,
                          <<SessionStartedPrompt>>, <<outcome>>,
                          <<initialResponse>>)
    /\ pending' = RemoveAt(pending, i)
    /\ UNCHANGED <<strategies, agents, sessionStats, overlapped>>

\* sendMessage forgetting to store the user's message before it awaits
sendMessageCalled_NoUserEntry(sessionId, message) ==
    /\ IF sendMessagePrecondition(sessionId) # ""
       THEN /\ UNCHANGED <<sessions, sessionStats, pending>>
            /\ overlapped' = (overlapped \/ pending # <<>>)
            /\ last' = Call("sendMessage", message, "", sessionId,
                            sendMessagePrecondition(sessionId),
                            <<>>, <<>>, <<>>, <<>>)
       ELSE /\ CallsCounted < MaxCalls
            /\ sessions' = [sessions EXCEPT ![sessionId].messages_count = @ + 1]
            /\ sessionStats' = [sessionStats EXCEPT !.totalMessages = @ + 1]
            /\ suspend(Suspended("sendMessage", "oracle", "", "", sessionId,
                                 message))
            /\ UNCHANGED last
    /\ UNCHANGED <<strategies, agents, heap>>

\* sendMessage from its call to its await on the agent
sendMessageCalled(sessionId, message) ==
    /\ IF sendMessagePrecondition(sessionId) # ""
       THEN /\ UNCHANGED <<sessions, sessionStats, pending>>
            /\ overlapped' = (overlapped \/ pending # <<>>)
            /\ last' = Call("sendMessage", message, "", sessionId,
                            sendMessagePrecondition(sessionId),
                            <<>>, <<>>, <<>>, <<>>)
       ELSE /\ CallsCounted < MaxCalls
            /\ sessions' = [sessions EXCEPT
                    ![sessionId].messages = Append(@, Message("user", message)),
                    ![sessionId].messages_count = @ + 1]
            /\ sessionStats' = [sessionStats EXCEPT !.totalMessages = @ + 1]
            /\ suspend(Suspended("sendMessage", "oracle", "", "", sessionId,
                                 message))
            /\ UNCHANGED last
    /\ UNCHANGED <<strategies, agents, heap>>

\* sendMessage resuming with the context object replaced by the copy it
\* would have taken at its call: whatever was appended meanwhile is lost
sendMessageAnswered_StaleCopy(i, outcome) ==
    /\ i \in DOMAIN pending
    /\ pending[i].op = "sendMessage"
    /\ ~awaitingEnd
    /\ LET sessionId == pending[i].sessionId
           message == pending[i].message
           context == sessions[sessionId]
           agentResponse == processPrompt(message, context, outcome)
           escalate == shouldEscalate(agentResponse)
       IN /\ sessions' = [sessions EXCEPT
                ![sessionId].messages =
                    <<Head(@), Message("user", message),
                      Message("assistant", agentResponse.message)>>,
                ![sessionId].messages_count = 2,
                ![sessionId].status = IF escalate THEN "escalated" ELSE @]
          /\ heap' = updateSessionContext(heap, context.user_inputs,
                                          agentResponse.context_updates)
          /\ sessionStats' =
                IF escalate
                THEN [sessionStats EXCEPT !.activeSessions = @ - 1]
                ELSE sessionStats
          /\ last' = Call("sendMessage", message, "", sessionId, "",
                <<OutputOf(sessionId, agentResponse,
                           IF escalate THEN "escalated" ELSE context.status)>>,
                <<message>>, <<outcome>>, <<agentResponse>>)
    /\ pending' = RemoveAt(pending, i)
    /\ UNCHANGED <<strategies, agents, overlapped>>

\* sendMessage letting a failed round fail the call
sendMessageAnswered_Rethrows(i, outcome) ==
    /\ i \in DOMAIN pending
    /\ pending[i].op = "sendMessage"
    /\ ~awaitingEnd
    /\ LET sessionId == pending[i].sessionId
           message == pending[i].message
           context == sessions[sessionId]
           agentResponse == processPrompt(message, context, outcome)
           answered ==
                [context EXCEPT
                    !.messages =
                        Append(@, Message("assistant", agentResponse.message)),
                    !.messages_count = @ + 1]
           escalate == shouldEscalate(agentResponse)
           final == IF escalate
                    THEN [answered EXCEPT !.status = "escalated"]
                    ELSE answered
       IN IF OracleFailed(outcome)
          THEN /\ UNCHANGED <<sessions, heap, sessionStats>>
               /\ last' = Call("sendMessage", message, "", sessionId,
                               thrownMessage(outcome), <<>>,
                               <<message>>, <<outcome>>, <<>>)
          ELSE /\ sessions' = [sessions EXCEPT ![sessionId] = final]
               /\ heap' = updateSessionContext(heap, context.user_inputs,
                                               agentResponse.context_updates)
               /\ sessionStats' =
                     IF escalate
                     THEN [sessionStats EXCEPT !.activeSessions = @ - 1]
                     ELSE sessionStats
               /\ last' = Call("sendMessage", message, "", sessionId, "",
                     <<OutputOf(sessionId, agentResponse, final.status)>>,
                     <<message>>, <<outcome>>, <<agentResponse>>)
    /\ pending' = RemoveAt(pending, i)
    /\ UNCHANGED <<strategies, agents, overlapped>>

\* sendMessage from the agent's answer to its return
sendMessageAnswered(i, outcome) ==
    /\ i \in DOMAIN pending
    /\ pending[i].op = "sendMessage"
    /\ ~awaitingEnd
    /\ LET sessionId == pending[i].sessionId
           message == pending[i].message
           context == sessions[sessionId]
           agentResponse == processPrompt(message, context, outcome)
           answered ==
                [context EXCEPT
                    !.messages =
                        Append(@, Message("assistant", agentResponse.message)),
                    !.messages_count = @ + 1]
           escalate == shouldEscalate(agentResponse)
           final == IF escalate
                    THEN [answered EXCEPT !.status = "escalated"]
                    ELSE answered
       IN /\ sessions' = [sessions EXCEPT ![sessionId] = final]
          /\ heap' = updateSessionContext(heap, context.user_inputs,
                                          agentResponse.context_updates)
          /\ sessionStats' =
                IF escalate
                THEN [sessionStats EXCEPT !.activeSessions = @ - 1]
                ELSE sessionStats
          /\ last' = Call("sendMessage", message, "", sessionId, "",
                <<OutputOf(sessionId, agentResponse, final.status)>>,
                <<message>>, <<outcome>>, <<agentResponse>>)
    /\ pending' = RemoveAt(pending, i)
    /\ UNCHANGED <<strategies, agents, overlapped>>

StartSessionCalled == startSessionCalled("u1", "sales")

StartSessionAfterEnd == \E i \in DOMAIN pending : startSessionAfterEnd(i)

StartSessionAnswered ==
    \E i \in DOMAIN pending : startSessionAnswered(i, Decided(BaseDecision))

SendMessageCalled ==
    \E sessionId \in 1..(Len(sessions) + 1), message \in UserTexts :
        sendMessageCalled(sessionId, message)

SendMessageAnswered ==
    \E i \in DOMAIN pending,
       outcome \in {Decided(BaseDecision), Decided(EscalatingDecision), NoAnswer} :
        sendMessageAnswered(i, outcome)

EndSessionMeanwhile == \E sessionId \in SessionIds : endSession(sessionId)

NextOverlap ==
    \/ RegisterValidStrategy
    \/ StartSessionCalled
    \/ StartSessionAfterEnd
    \/ StartSessionAnswered
    \/ SendMessageCalled
    \/ SendMessageAnswered
    \/ EndSessionMeanwhile

SpecOverlap == Init /\ [][NextOverlap]_vars

\* The oracle call of every suspended call eventually returns or fails, and
\* a continuation that is ready to run is run.
FairOverlap ==
    /\ SpecOverlap
    /\ WF_vars(StartSessionAfterEnd)
    /\ WF_vars(StartSessionAnswered)
    /\ WF_vars(SendMessageAnswered)

----------------------------------------------------------------------------
(* Properties *)

\* the step just taken is a sendMessage call that passed its precondition
\* checks and whose oracle round failed / yielded a decision
FailedTurn(call) ==
    /\ call.op = "sendMessage"
    /\ call.threw = ""
    /\ OracleFailed(call.outcomes[1])

DecidedTurn(call) ==
    /\ call.op = "sendMessage"
    /\ call.threw = ""
    /\ ~OracleFailed(call.outcomes[1])

ActiveSessionsOf(userId) ==
    {i \in SessionIds : /\ sessions[i].user_id = userId
                        /\ sessions[i].status = "active"}

\* C1: between calls, every user id has at most one session whose status is
\* active.
C1_OneActiveSessionPerUser ==
    \A userId \in Users : Cardinality(ActiveSessionsOf(userId)) <= 1

\* a user's second session was started while the first was active
C1_Witness ==
    /\ last.op = "startSession"
    /\ last.threw = ""
    /\ \E i \in SessionIds :
        /\ i < last.sessionId
        /\ sessions[i].user_id = last.userId
        /\ sessions[i].status = "completed"
        /\ sessions[last.sessionId].status = "active"
        /\ sessionStats.completedSessions = 1

\* C2: after a sendMessage turn whose oracle round failed, the session is
\* still active and the returned Output says session_status active.
C2_FailedTurnStaysActive ==
    FailedTurn(last) =>
        /\ sessions[last.sessionId].status = "active"
        /\ last.returned[1].session_status = "active"

\* C3: a sendMessage turn whose oracle round fails leaves the session's
\* user_inputs mapping as it was.
C3_FailedTurnKeepsUserInputs ==
    [][FailedTurn(last') =>
        heap'[sessions[last'.sessionId].user_inputs]
            = heap[sessions[last'.sessionId].user_inputs]]_vars

\* C4: a sendMessage turn whose oracle round fails adds exactly one to the
\* error counter, and a turn that yields a decision leaves it unchanged.
C4_ErrorCounted ==
    [][/\ FailedTurn(last') =>
            sessionStats'.errorCount = sessionStats.errorCount + 1
       /\ DecidedTurn(last') =>
            sessionStats'.errorCount = sessionStats.errorCount]_vars

\* C5: sendMessage on an id that is not in the store throws session-not-found,
\* on a stored session that is not active it throws session-not-active; in
\* both cases no agent round runs and the sessions, their user_inputs objects
\* and the counters are unchanged.
C5_CallerErrorsMutateNothing ==
    [][(/\ last'.op = "sendMessage"
        /\ \/ last'.sessionId \notin SessionIds
           \/ sessions[last'.sessionId].status # "active") =>
        /\ last'.threw = IF last'.sessionId \notin SessionIds
                         THEN "AI Session not found"
                         ELSE "AI Session is not active"
        /\ last'.returned = <<>>
        /\ last'.prompts = <<>>
        /\ sessions' = sessions
        /\ heap' = heap
        /\ sessionStats' = sessionStats]_vars

\* a message was refused on a stored session that had left active
C5_Witness ==
    /\ last.op = "sendMessage"
    /\ last.threw = "AI Session is not active"
    /\ last.sessionId \in SessionIds
    /\ sessions[last.sessionId].status = "escalated"

\* C6: of two endSession calls in a row on the id of a stored session, the
\* first returns true and the second false.
C6_SecondEndReturnsFalse ==
    [][(/\ last.op = "endSession"
        /\ last'.op = "endSession"
        /\ last'.sessionId = last.sessionId
        /\ last.sessionId \in SessionIds) =>
        /\ last.returned = <<TRUE>>
        /\ last'.returned = <<FALSE>>]_vars

\* C7: endSession on a stored session sets its status to completed, adds one
\* to the completed-session count and returns true; on an id that is not in
\* the store it returns false and changes no session and no counter.
C7_EndSessionEffect ==
    [][last'.op = "endSession" =>
        IF last'.sessionId \in SessionIds
        THEN /\ sessions'[last'.sessionId].status = "completed"
             /\ sessionStats'.completedSessions
                    = sessionStats.completedSessions + 1
             /\ last'.returned = <<TRUE>>
        ELSE /\ last'.returned = <<FALSE>>
             /\ sessions' = sessions
             /\ heap' = heap
             /\ sessionStats' = sessionStats]_vars

\* an active session was ended and counted
C7_Witness ==
    /\ last.op = "endSession"
    /\ last.returned = <<TRUE>>
    /\ sessions[last.sessionId].status = "completed"
    /\ sessionStats.completedSessions = 1
    /\ sessionStats.activeSessions = 0

\* C8: once a session's status is completed or escalated, no call changes it.
C8_TerminalStatusKept ==
    [][\A i \in SessionIds :
        sessions[i].status \in {"completed", "escalated"} =>
            sessions'[i].status = sessions[i].status]_vars

\* C9: a sendMessage turn that yields a decision leaves the session escalated
\* exactly when the decision's meta.should_escalate is true, and active
\* otherwise, whatever next_action is; the Output's session_status is the
\* session's status after the turn.
C9_EscalatesOnFlagOnly ==
    DecidedTurn(last) =>
        /\ sessions[last.sessionId].status =
            IF last.outcomes[1].decision.meta.should_escalate
            THEN "escalated" ELSE "active"
        /\ last.returned[1].session_status = sessions[last.sessionId].status

\* the decision asked for the action escalate without setting the flag
C9_Witness ==
    /\ DecidedTurn(last)
    /\ last.outcomes[1].decision.flow_decision.next_action = "escalate"
    /\ ~last.outcomes[1].decision.meta.should_escalate
    /\ sessions[last.sessionId].status = "active"

\* C10: a successful startSession runs exactly one agent round, with prompt
\* '[SESSION_STARTED]'; the returned initial_message is that round's
\* AgentResponse.message, and the new session's messages hold exactly one
\* message, of role assistant, with that content.
C10_SyntheticFirstTurn ==
    (last.op = "startSession" /\ last.threw = "") =>
        /\ last.prompts = <<"[SESSION_STARTED]">>
        /\ Len(last.responses) = 1
        /\ last.returned[1].initial_message = last.responses[1].message
        /\ sessions[last.sessionId].messages
                = <<[role |-> "assistant",
                     content |-> last.responses[1].message]>>

\* a session was started and its first turn was answered by a decision
C10_Witness ==
    /\ last.op = "startSession"
    /\ last.threw = ""
    /\ last.outcomes[1].kind = "decision"
    /\ last.returned[1].initial_message = "here is the price"

\* C11: when startSession with a registered strategy finds an active session
\* of the user, that session is completed and the completed-session count
\* grows by one; the new session is active, with current_goal
\* 'initial_engagement', messages_count 0 and an empty user profile.
C11_StartEndsOldSession ==
    [][(last'.op = "startSession" /\ last'.threw = "") =>
        /\ \A i \in ActiveSessionsOf(last'.userId) :
            sessions'[i].status = "completed"
        /\ sessionStats'.completedSessions = sessionStats.completedSessions
            + (IF ActiveSessionsOf(last'.userId) # {} THEN 1 ELSE 0)
        /\ last'.sessionId = Len(sessions) + 1
        /\ Len(sessions') = Len(sessions) + 1
        /\ sessions'[last'.sessionId].user_id = last'.userId
        /\ sessions'[last'.sessionId].status = "active"
        /\ sessions'[last'.sessionId].current_goal = "initial_engagement"
        /\ sessions'[last'.sessionId].messages_count = 0
        /\ DOMAIN sessions'[last'.sessionId].user_profile = {}]_vars

\* the user's earlier session was active until this startSession
C11_Witness ==
    /\ last.op = "startSession"
    /\ last.threw = ""
    /\ last.sessionId = 2
    /\ sessions[1].user_id = last.userId
    /\ sessions[1].status = "completed"
    /\ sessions[1].messages_count = 2
    /\ sessionStats.completedSessions = 1
    /\ sessions[2].status = "active"

\* C14: unregisterStrategy changes no SessionContext; a sendMessage on an
\* active session whose strategy is no longer registered throws, runs no
\* agent round, and leaves the sessions (that one still active), the
\* user_inputs objects and the counters unchanged.
C14_RemovedStrategyFailsNextTurn ==
    [][/\ last'.op = "unregisterStrategy" =>
            (sessions' = sessions /\ heap' = heap)
       /\ (/\ last'.op = "sendMessage"
           /\ last'.sessionId \in SessionIds
           /\ sessions[last'.sessionId].status = "active"
           /\ sessions[last'.sessionId].strategy_name \notin DOMAIN strategies) =>
            /\ last'.threw # ""
            /\ last'.returned = <<>>
            /\ last'.prompts = <<>>
            /\ sessions' = sessions
            /\ sessions'[last'.sessionId].status = "active"
            /\ heap' = heap
            /\ sessionStats' = sessionStats]_vars

\* a message was refused on an active session whose strategy was removed
C14_Witness ==
    /\ last.op = "sendMessage"
    /\ last.threw = "Agent for strategy not found"
    /\ sessions[last.sessionId].status = "active"
    /\ sessions[last.sessionId].strategy_name \notin DOMAIN strategies

\* C15: startSession with a strategy name that is not registered throws
\* strategy-not-found and changes nothing: no session is created or ended and
\* no counter changes.
C15_UnknownStrategyMutatesNothing ==
    [][(/\ last'.op = "startSession"
        /\ last'.arg \notin DOMAIN strategies) =>
        /\ last'.threw = "Strategy not found"
        /\ last'.returned = <<>>
        /\ last'.prompts = <<>>
        /\ sessions' = sessions
        /\ heap' = heap
        /\ sessionStats' = sessionStats]_vars

\* startSession was refused for a user who has an active session
C15_Witness ==
    /\ last.op = "startSession"
    /\ last.threw = "Strategy not found"
    /\ last.arg = "sales"
    /\ ActiveSessionsOf(last.userId) # {}

\* C20: the active_sessions value of getStats is the number of stored
\* sessions whose status is active.
C20_ActiveSessionsRecomputed ==
    getStats.active_sessions =
        Len(SelectSeq(sessions, LAMBDA c : c.status = "active"))

\* the incrementally maintained counter has drifted from the true number
C20_Witness ==
    /\ sessionStats.activeSessions < 0
    /\ getStats.active_sessions = 0
    /\ Len(sessions) > 0

\* the five required fields of a strategy are all there / all truthy
RequiredFields == {"name", "primary_goal", "domain", "personality", "guidelines"}

AllPresent(strategy) == \A f \in RequiredFields : strategy[f] # Undefined

AllTruthy(strategy) == \A f \in RequiredFields : strategy[f] \notin {Undefined, ""}

\* C12: after registerStrategy(s) of a valid s, getStrategy(s.name) returns
\* s, also when the name was registered before; after
\* unregisterStrategy(name), getStrategy(name) returns none, and the call
\* returned true exactly when the name was registered.
C12_RegisterGetUnregister ==
    [][/\ \A s \in StrategyInputs :
            (last'.op = "registerStrategy" /\ last'.arg = s /\ AllTruthy(s)) =>
                /\ last'.threw = ""
                /\ getStrategy(s.name)' = <<s>>
       /\ \A name \in StrategyNames :
            (last'.op = "unregisterStrategy" /\ last'.arg = name) =>
                /\ getStrategy(name)' = <<>>
                /\ last'.returned = <<name \in DOMAIN strategies>>]_vars

\* the second strategy named sales replaced the one a session was started on
C12_Witness ==
    /\ last.op = "registerStrategy"
    /\ last.arg = [ValidStrategy EXCEPT !.primary_goal = "inform"]
    /\ getStrategy("sales") = <<last.arg>>
    /\ Len(sessions) = 1
    /\ sessions[1].strategy_name = "sales"
    /\ "support" \in DOMAIN strategies

AgentInterpreted(call) ==
    /\ call.op = "processPrompt"
    /\ ~OracleFailed(call.outcomes[1])

\* the keys interpretDecision always writes
FixedKeys ==
    {"last_decision", "last_user_message", "session_stage", "user_sentiment",
     "guidelines_considered", "opportunities_identified", "risks_identified",
     "previous_goal", "current_goal", "goal_progress", "decision_confidence",
     "backup_plan", "escalation_needed", "escalation_reason",
     "last_decision_time", "updated_at"}

\* C16: in the context delta of an interpreted decision every fixed derived
\* key carries the value derived from the decision (the prompt and the
\* context's goal for last_user_message and previous_goal), also when the
\* decision's own context_updates has a key of that name; every other key of
\* context_updates keeps the decision's value.
C16_FixedKeysOverride ==
    AgentInterpreted(last) =>
        LET decision == last.outcomes[1].decision
            own == decision.action_execution.context_updates
            delta == last.responses[1].context_updates
        IN /\ FixedKeys \subseteq DOMAIN delta
           /\ delta.last_decision = decision
           /\ delta.last_user_message = last.prompts[1]
           /\ delta.session_stage = decision.meta.session_stage
           /\ delta.user_sentiment = decision.meta.user_sentiment
           /\ delta.guidelines_considered =
                    decision.strategy_analysis.relevant_guidelines
           /\ delta.opportunities_identified =
                    decision.strategy_analysis.opportunities
           /\ delta.risks_identified = decision.strategy_analysis.risk_factors
           /\ delta.previous_goal = sessions[last.sessionId].current_goal
           /\ delta.current_goal = decision.action_execution.next_goal
           /\ delta.goal_progress = decision.strategy_analysis.goal_progress
           /\ delta.decision_confidence = decision.flow_decision.confidence
           /\ delta.backup_plan = decision.flow_decision.backup_plan
           /\ delta.escalation_needed = decision.meta.should_escalate
           /\ delta.escalation_reason = decision.meta.escalation_reason
           /\ delta.last_decision_time = Timestamp
           /\ delta.updated_at = Timestamp
           /\ \A k \in (DOMAIN own) \ FixedKeys : delta[k] = own[k]
           /\ DOMAIN delta = FixedKeys \cup DOMAIN own

\* a decision whose own updates name current_goal, escalation_needed and a
\* key that is not fixed has been interpreted
C16_Witness ==
    /\ AgentInterpreted(last)
    /\ last.outcomes[1].decision = CollidingDecision
    /\ CollidingDecision.action_execution.context_updates.current_goal = "hijacked"
    /\ CollidingDecision.action_execution.context_updates.escalation_needed
    /\ last.responses[1].context_updates.current_goal = "close"
    /\ ~last.responses[1].context_updates.escalation_needed
    /\ last.responses[1].context_updates.budget = "high"

\* the points when the condition holds, else none
Earned(condition, points) == IF condition THEN points ELSE 0

\* C17: the quality tier of every interpreted decision follows the score, in
\* tenths: 3 for at least one relevant guideline, 3 for confidence above 0.7,
\* 2 for at least one opportunity or risk factor, 2 for a flow reasoning
\* longer than 20 characters; high from 8, medium from 5, low below; all
\* four give high, none gives low, and confidence of exactly 0.7 or a
\* reasoning of exactly 20 characters earns nothing.
C17_QualityTier ==
    AgentInterpreted(last) =>
        LET decision == last.outcomes[1].decision
            cited == decision.strategy_analysis.relevant_guidelines # <<>>
            confident == decision.flow_decision.confidence > 700
            spotted == \/ decision.strategy_analysis.opportunities # <<>>
                       \/ decision.strategy_analysis.risk_factors # <<>>
            argued == Len(decision.flow_decision.reasoning) > 20
            score == Earned(cited, 3) + Earned(confident, 3)
                        + Earned(spotted, 2) + Earned(argued, 2)
            tier == last.responses[1].meta.decision_quality
        IN /\ score >= 8 => tier = "high"
           /\ (score >= 5 /\ score < 8) => tier = "medium"
           /\ score < 5 => tier = "low"
           /\ (cited /\ confident /\ spotted /\ argued) => tier = "high"
           /\ ~(cited \/ confident \/ spotted \/ argued) => tier = "low"
           /\ (/\ decision.flow_decision.confidence = 700
               /\ cited /\ spotted /\ argued) => tier = "medium"
           /\ (/\ Len(decision.flow_decision.reasoning) = 20
               /\ cited /\ confident /\ ~spotted) => tier = "medium"

\* a decision with confidence of exactly 0.7 and everything else earned has
\* been graded medium
C17_Witness ==
    /\ AgentInterpreted(last)
    /\ last.outcomes[1].decision.flow_decision.confidence = 700
    /\ last.outcomes[1].decision.strategy_analysis.relevant_guidelines # <<>>
    /\ last.outcomes[1].decision.strategy_analysis.risk_factors # <<>>
    /\ Len(last.outcomes[1].decision.flow_decision.reasoning) = 21
    /\ last.responses[1].meta.decision_quality = "medium"

RECURSIVE JoinedBy(_, _)
\* the fragments in order with the separator between neighbours
JoinedBy(fragments, separator) ==
    IF Len(fragments) = 0 THEN ""
    ELSE IF Len(fragments) = 1 THEN fragments[1]
    ELSE fragments[1] \o separator \o JoinedBy(Tail(fragments), separator)

\* C18: the reasoning of every interpreted decision is five labelled
\* fragments in the order situation assessment, flow reasoning, action
\* intent, confidence as an integer percentage, session stage, joined by
\* " | ".
C18_ReasoningFormat ==
    AgentInterpreted(last) =>
        LET decision == last.outcomes[1].decision
            percent ==
                CHOOSE n \in 0..100 :
                    /\ 10 * n - 5 <= decision.flow_decision.confidence
                    /\ decision.flow_decision.confidence < 10 * n + 5
        IN last.responses[1].reasoning =
            JoinedBy(<<"Analysis: " \o decision.strategy_analysis.situation_assessment,
                       "Decision: " \o decision.flow_decision.reasoning,
                       "Action: " \o decision.action_execution.message_intent,
                       "Confidence: " \o ToString(percent) \o "%",
                       "Stage: " \o decision.meta.session_stage>>,
                     " | ")

\* a decision with confidence 0.701 has been interpreted and reads 70%
C18_Witness ==
    /\ AgentInterpreted(last)
    /\ last.outcomes[1].decision.flow_decision.confidence = 701
    /\ last.responses[1].reasoning =
        "Analysis: interested | Decision: done. | Action: inform | Confidence: 70% | Stage: discovery"

\* after is before with every key of delta overwritten and no key lost
Overwritten(before, after, delta) ==
    /\ \A k \in DOMAIN delta : after[k] = delta[k]
    /\ \A k \in (DOMAIN before) \ (DOMAIN delta) :
            k \in DOMAIN after /\ after[k] = before[k]
    /\ DOMAIN after = (DOMAIN before) \cup (DOMAIN delta)

\* C19: merging a context delta into a session is a shallow last-writer-wins
\* overwrite: after the merge user_inputs[k] is the delta's value for every
\* key k of the delta, every other key of user_inputs (those of the caller's
\* initial context included) keeps its value, and no key is removed.
C19_ShallowMerge ==
    [][/\ (last'.op = "sendMessage" /\ last'.threw = "") =>
            Overwritten(heap[sessions[last'.sessionId].user_inputs],
                        heap'[sessions'[last'.sessionId].user_inputs],
                        last'.responses[1].context_updates)
       /\ (last'.op = "startSession" /\ last'.threw = "") =>
            \A initialContext \in InitialContexts :
                Overwritten(initialContext,
                            heap'[sessions'[last'.sessionId].user_inputs],
                            last'.responses[1].context_updates)
       /\ \A i \in SessionIds :
            sessions'[i].user_inputs = sessions[i].user_inputs]_vars

\* a session started with budget "low" and plan "pro" has had budget
\* overwritten by a turn, its guideline list replaced by an empty one, and
\* still holds plan
C19_Witness ==
    /\ last.op = "sendMessage"
    /\ last.threw = ""
    /\ last.outcomes[1] = Decided(CloseActionOnly)
    /\ heap[sessions[last.sessionId].user_inputs].budget = "high"
    /\ heap[sessions[last.sessionId].user_inputs].plan = "pro"
    /\ heap[sessions[last.sessionId].user_inputs].guidelines_considered = <<>>

\* a quotient that is a number (not NaN, not infinite) and equals zero
IsZero(x) == x.num = 0 /\ x.den # 0

\* C21: getStrategyPerformance for a strategy name to which no session is
\* bound returns total_sessions 0 and completion_rate, escalation_rate,
\* average_messages and performance_score all 0, none of them NaN.
C21_NoSessionsAllZero ==
    \A name \in StrategyNames :
        sessionsOf(name) = {} =>
            /\ getStrategyPerformance(name).strategy_name = name
            /\ getStrategyPerformance(name).total_sessions = 0
            /\ IsZero(getStrategyPerformance(name).completion_rate)
            /\ IsZero(getStrategyPerformance(name).escalation_rate)
            /\ IsZero(getStrategyPerformance(name).average_messages)
            /\ IsZero(getStrategyPerformance(name).performance_score)

\* the store holds sessions of "sales" with messages counted, none of the
\* registered "support" and none of the never-registered "ghost"
C21_Witness ==
    /\ "support" \in DOMAIN strategies
    /\ sessionsOf("support") = {}
    /\ sessionsOf("ghost") = {}
    /\ \E i \in sessionsOf("sales") : sessions[i].messages_count > 0
    /\ getStrategyPerformance("support").total_sessions = 0

\* the points of the claim for one session, in tenths
ClaimedPoints(i) ==
    LET inputs == heap[sessions[i].user_inputs]
    IN Earned(sessions[i].status = "completed", 10)
       + Earned("decision_quality" \in DOMAIN inputs
                    /\ inputs["decision_quality"] = "high", 5)
       + Earned("user_sentiment" \in DOMAIN inputs
                    /\ inputs["user_sentiment"] = "positive", 3)
       - Earned(sessions[i].status = "escalated", 5)

RECURSIVE ClaimedSum(_, _)
\* the points of the sessions 1..n bound to name
ClaimedSum(name, n) ==
    IF n = 0 THEN 0
    ELSE ClaimedSum(name, n - 1)
            + (IF sessions[n].strategy_name = name THEN ClaimedPoints(n) ELSE 0)

\* C22: for every strategy with at least one bound session the performance
\* score is the sum of the per-session points (+1 completed, +0.5 recorded
\* decision_quality high, +0.3 recorded user_sentiment positive, -0.5
\* escalated) divided by the number of sessions and clipped to [0,1]; it is
\* always between 0 and 1 inclusive.
C22_ScoreAveragedAndClipped ==
    \A name \in StrategyNames :
        LET n == Cardinality(sessionsOf(name))
            sum == ClaimedSum(name, Len(sessions))
            score == getStrategyPerformance(name).performance_score
        IN n > 0 =>
            /\ score.den > 0
            /\ 0 <= score.num
            /\ score.num <= score.den
            /\ IF sum < 0 THEN score.num = 0
               ELSE IF sum > 10 * n THEN score.num = score.den
               ELSE score.num * 10 * n = sum * score.den

\* two sessions of one strategy, one completed and one not, whose average
\* lies strictly between 0 and 1
C22_Witness ==
    \E name \in StrategyNames :
        /\ Cardinality(sessionsOf(name)) = 2
        /\ \E i \in sessionsOf(name) : sessions[i].status = "completed"
        /\ \E i \in sessionsOf(name) : sessions[i].status = "active"
        /\ getStrategyPerformance(name).performance_score.num > 0
        /\ getStrategyPerformance(name).performance_score.num
                < getStrategyPerformance(name).performance_score.den

\* C25: a sendMessage call performs exactly one agent round when its
\* precondition checks pass and none when it fails with a caller error;
\* startSession performs exactly one (none when it throws before creating
\* the session) and endSession, registerStrategy and unregisterStrategy none.
C25_OneRoundPerCall ==
    /\ Len(last.prompts) = Len(last.outcomes)
    /\ Len(last.outcomes) <= 1
    /\ last.op = "sendMessage" =>
            IF last.threw = ""
            THEN last.prompts = <<last.arg>> /\ Len(last.responses) = 1
            ELSE last.outcomes = <<>> /\ last.responses = <<>>
    /\ last.op = "startSession" =>
            IF last.threw = ""
            THEN last.prompts = <<SessionStartedPrompt>> /\ Len(last.responses) = 1
            ELSE last.outcomes = <<>> /\ last.responses = <<>>
    /\ last.op \in {"endSession", "registerStrategy", "unregisterStrategy"} =>
            last.outcomes = <<>>

\* a sendMessage whose only round failed has returned, not asked again
C25_Witness ==
    /\ last.op = "sendMessage"
    /\ last.threw = ""
    /\ Len(last.outcomes) = 1
    /\ OracleFailed(last.outcomes[1])
    /\ last.returned[1].message = FallbackMessage

\* the providers the README documents as supported
DocumentedProviders == {"openai", "anthropic", "google"}

\* the model names each documented provider is configured with
ConfiguredModels(provider) ==
    IF provider \in DOMAIN MODEL_CONFIGS
    THEN (DOMAIN MODEL_CONFIGS[provider]) \ {"default"}
    ELSE {}

\* C26: for a strategy of a documented provider (openai, anthropic, google)
\* getLanguageModel returns a model of that provider, and a model name that
\* is not configured for the provider gives a model of that same provider
\* (its default).
C26_ProviderHonoured ==
    (last.op = "newAgent" /\ last.arg.llm_provider \in DocumentedProviders) =>
        /\ last.returned[1].provider = last.arg.llm_provider
        /\ last.arg.model \in ConfiguredModels(last.arg.llm_provider) =>
                last.returned[1].modelId = last.arg.model

C30_ContextUntouched ==
    [][last'.op = "processPrompt" =>
        /\ sessions'[last'.sessionId].status = sessions[last'.sessionId].status
        /\ sessions'[last'.sessionId].messages = sessions[last'.sessionId].messages
        /\ sessions'[last'.sessionId].messages_count
                = sessions[last'.sessionId].messages_count
        /\ sessions'[last'.sessionId].current_goal
                = sessions[last'.sessionId].current_goal
        /\ sessions'[last'.sessionId].user_inputs
                = sessions[last'.sessionId].user_inputs
        /\ heap'[sessions[last'.sessionId].user_inputs]
                = heap[sessions[last'.sessionId].user_inputs]
        /\ sessions' = sessions
        /\ heap' = heap]_vars

\* a decision has been interpreted for the prompt "hello" and its delta names
\* a new goal, while the context still holds what startSession left in it
C30_Witness ==
    /\ AgentInterpreted(last)
    /\ last.responses[1].context_updates.last_user_message = "hello"
    /\ last.responses[1].context_updates.current_goal = "close"
    /\ heap[sessions[last.sessionId].user_inputs].last_user_message
            = SessionStartedPrompt
    /\ sessions[last.sessionId].current_goal = "initial_engagement"
    /\ Len(sessions[last.sessionId].messages) = 1
    /\ sessions[last.sessionId].messages_count = 0

\* the entries of a session's messages written by the user
UserEntries(i) ==
    Len(SelectSeq(sessions[i].messages, LAMBDA m : m.role = "user"))

\* the sendMessage calls on the session suspended at the agent
SendsPending(i) ==
    Len(SelectSeq(pending,
                  LAMBDA c : c.op = "sendMessage" /\ c.sessionId = i))

\* whether the startSession that created the session awaits the agent
StartPending(i) ==
    \E k \in DOMAIN pending :
        /\ pending[k].op = "startSession"
        /\ pending[k].stage = "oracle"
        /\ pending[k].sessionId = i

RECURSIVE UserEntriesUpTo(_)
\* the user entries of the sessions 1..n
UserEntriesUpTo(n) ==
    IF n = 0 THEN 0 ELSE UserEntriesUpTo(n - 1) + UserEntries(n)

\* messages holds two user entries in a row: two sendMessage calls on the
\* session were suspended at the same time
SendsOverlapped(i) ==
    \E k \in 1..(Len(sessions[i].messages) - 1) :
        /\ sessions[i].messages[k].role = "user"
        /\ sessions[i].messages[k + 1].role = "user"

\* C23 as claimed: once two sendMessage calls that overlapped on a session
\* have both returned, the session's messages holds fewer than the 4 entries
\* the two turns append (after the first assistant message), or
\* messages_count or the total-message counter is lower than the 4 and 2 the
\* two calls give one after the other.
C23_OverlapLosesUpdates ==
    \A i \in SessionIds :
        (pending = <<>> /\ SendsOverlapped(i)) =>
            \/ Len(sessions[i].messages) < 5
            \/ sessions[i].messages_count < 4
            \/ sessionStats.totalMessages < 2

\* C23 amended: overlapping sendMessage calls lose no update to messages or
\* counters. In every state of every interleaving the total-message counter
\* is the number of user entries stored, and each session's messages_count
\* and messages hold one entry per accepted call and one per returned call:
\* messages_count is twice the user entries minus the calls still suspended,
\* and the assistant entries are the first message plus one per returned
\* call; no counter ever decreases.
C23_NoUpdateLost ==
    /\ [](/\ sessionStats.totalMessages = UserEntriesUpTo(Len(sessions))
          /\ \A i \in SessionIds :
                /\ sessions[i].messages_count
                        = 2 * UserEntries(i) - SendsPending(i)
                /\ Len(sessions[i].messages)
                        = 2 * UserEntries(i) - SendsPending(i)
                            + (IF StartPending(i) THEN 0 ELSE 1))
    /\ [][/\ sessionStats'.totalMessages >= sessionStats.totalMessages
          /\ \A i \in SessionIds :
                /\ sessions'[i].messages_count >= sessions[i].messages_count
                /\ Len(sessions'[i].messages) >= Len(sessions[i].messages)]_vars

\* two sendMessage calls overlapped on session 1 and both have returned: all
\* four entries are there, in the order user, user, assistant, assistant
C23_Witness ==
    /\ pending = <<>>
    /\ Len(sessions) = 1
    /\ [k \in 1..Len(sessions[1].messages) |-> sessions[1].messages[k].role]
            = <<"assistant", "user", "user", "assistant", "assistant">>
    /\ sessions[1].messages_count = 4
    /\ sessionStats.totalMessages = 2

\* C24: startSession does not repeat its check of the user's sessions after
\* the await on endSession: the call that resumes there creates a new active
\* session for its user and leaves every stored session as it is, an active
\* session of the same user included, so two overlapping calls can both
\* complete leaving the user with two active sessions.
C24_NoCheckAfterAwait ==
    [][\A k \in DOMAIN pending :
        (/\ pending[k].stage = "endSession"
         /\ Len(pending') = Len(pending)
         /\ pending'[k].stage = "oracle") =>
            /\ Len(sessions') = Len(sessions) + 1
            /\ sessions'[Len(sessions')].status = "active"
            /\ sessions'[Len(sessions')].user_id = pending[k].userId
            /\ pending'[k].sessionId = Len(sessions')
            /\ \A j \in SessionIds : sessions'[j] = sessions[j]
            /\ sessionStats'.activeSessions = sessionStats.activeSessions + 1]_vars

\* two startSession calls for u1 overlapped and both have returned: u1 has
\* two active sessions
C24_Witness ==
    /\ pending = <<>>
    /\ last.op = "startSession"
    /\ last.threw = ""
    /\ Cardinality(ActiveSessionsOf("u1")) = 2

\* the roles of a session's messages
Roles(i) ==
    [k \in 1..Len(sessions[i].messages) |-> sessions[i].messages[k].role]

IsPrefix(s, t) == Len(s) <= Len(t) /\ SubSeq(t, 1, Len(s)) = s

\* C27: each session's messages is append-only in every execution, calls
\* that overlap included: the messages of a state are a prefix of those of
\* the next. While no two calls have overlapped the roles read assistant,
\* then (user, assistant) repeated, the last pair being complete once the
\* call has returned, and a sendMessage that returns has appended its user
\* message and then the assistant message of its round.
C27_MessagesAppendOnly ==
    /\ [][/\ Len(sessions') >= Len(sessions)
          /\ \A i \in SessionIds :
                IsPrefix(sessions[i].messages, sessions'[i].messages)]_vars
    /\ [](~overlapped =>
            \A i \in SessionIds :
                /\ \A k \in DOMAIN Roles(i) :
                        Roles(i)[k] = IF k % 2 = 1 THEN "assistant" ELSE "user"
                /\ Len(sessions[i].messages) % 2 =
                        IF StartPending(i) \/ SendsPending(i) > 0 THEN 0 ELSE 1)
    /\ [][(/\ ~overlapped'
           /\ Len(pending') < Len(pending)
           /\ last'.op = "sendMessage") =>
            LET before == sessions[last'.sessionId].messages
                after == sessions'[last'.sessionId].messages
            IN /\ before[Len(before)] = Message("user", last'.arg)
               /\ after = Append(before,
                        Message("assistant", last'.responses[1].message))]_vars

\* without overlap a session has gone through two complete turns after its
\* first message
C27_Witness ==
    /\ ~overlapped
    /\ pending = <<>>
    /\ \E i \in SessionIds :
            Roles(i) = <<"assistant", "user", "assistant", "user", "assistant">>

\* C28: in every execution, calls that overlap included, a session whose
\* status has left active never has status active again, and no session
\* ever has status paused.
C28_NeverActiveAgain ==
    /\ [](\A i \in SessionIds :
            sessions[i].status \in {"active", "completed", "escalated"})
    /\ [][\A i \in SessionIds :
            sessions[i].status # "active" => sessions'[i].status # "active"]_vars

\* a sendMessage suspended on session 1 resumed after the session had been
\* ended: the session went from completed to escalated, not back to active
C28_Witness ==
    /\ pending = <<>>
    /\ Len(sessions) = 1
    /\ sessionStats.completedSessions = 1
    /\ sessions[1].status = "escalated"
    /\ last.op = "sendMessage"
    /\ last.returned[1].session_status = "escalated"

\* a sendMessage call is suspended at its oracle call
SendSuspended == \E k \in DOMAIN pending : pending[k].op = "sendMessage"

\* C31: every sendMessage call whose precondition checks pass eventually
\* returns an Output and never fails to the caller, whatever its oracle round
\* gave (a decision, an oracle error, no final decision), provided the oracle
\* call itself returns or fails: a step that ends a suspended sendMessage
\* hands back an Output holding the round's message, and no sendMessage stays
\* suspended for ever.
C31_SendMessageReturns ==
    /\ [][\A k \in DOMAIN pending :
            (pending[k].op = "sendMessage" /\ pending' = RemoveAt(pending, k)) =>
                /\ last'.op = "sendMessage"
                /\ last'.threw = ""
                /\ Len(last'.returned) = 1
                /\ last'.returned[1].session_id = pending[k].sessionId
                /\ last'.returned[1].message = last'.responses[1].message
                /\ last'.returned[1].session_status
                        \in {"active", "completed", "escalated"}]_vars
    /\ (SendSuspended ~> ~SendSuspended)

\* a sendMessage whose round gave no final decision has returned the fallback
\* message, with no call left suspended
C31_Witness ==
    /\ pending = <<>>
    /\ last.op = "sendMessage"
    /\ last.threw = ""
    /\ last.outcomes = <<NoAnswer>>
    /\ last.returned[1].message = FallbackMessage

\* C32: the total-session counter equals the number of SessionContexts in
\* the store, and getStats reports that number: a step that stores a new
\* session adds exactly one to both, and no step (endSession and escalation
\* included) removes a stored session or lowers the counter.
C32_TotalIsStoreSize ==
    /\ [](/\ sessionStats.totalSessions = Len(sessions)
          /\ getStats.total_sessions = Len(sessions))
    /\ [][/\ Len(sessions') - Len(sessions) \in {0, 1}
          /\ sessionStats'.totalSessions - sessionStats.totalSessions
                = Len(sessions') - Len(sessions)
          /\ \A i \in SessionIds :
                sessions'[i].session_id = sessions[i].session_id]_vars

\* two sessions have been stored, the first of them has been ended, and both
\* are still stored and counted
C32_Witness ==
    /\ Len(sessions) = 2
    /\ sessionStats.totalSessions = 2
    /\ sessions[1].status = "completed"
    /\ sessions[2].status = "active"

\* the stored sessions whose status is the given one
SessionsWithStatus(status) == {i \in SessionIds : sessions[i].status = status}

\* C33: in every reachable state the completed_sessions value returned by
\* getStats equals the number of stored sessions whose status is completed,
\* and so never exceeds total_sessions.
C33_CompletedIsCount ==
    /\ getStats.completed_sessions = Cardinality(SessionsWithStatus("completed"))
    /\ getStats.completed_sessions <= getStats.total_sessions

\* C40: in every reachable state the incrementally maintained active-session
\* counter equals the number of stored sessions whose status is active, and
\* is never negative.
C40_ActiveCounterIsCount ==
    /\ sessionStats.activeSessions = Cardinality(SessionsWithStatus("active"))
    /\ sessionStats.activeSessions >= 0

\* C34: between sequentially executed calls every stored session has
\* messages_count equal to the length of its messages minus one: the initial
\* assistant message is stored but not counted, and every sendMessage that
\* returns adds 2 to both (the user entry and the assistant entry).
C34_CountIsLengthMinusOne ==
    /\ [](\A i \in SessionIds :
            sessions[i].messages_count = Len(sessions[i].messages) - 1)
    /\ [][(last'.op = "startSession" /\ last'.threw = "") =>
                /\ Len(sessions'[last'.sessionId].messages) = 1
                /\ sessions'[last'.sessionId].messages_count = 0]_vars
    /\ [][\A i \in SessionIds :
            (last'.op = "sendMessage" /\ last'.threw = ""
                                     /\ last'.sessionId = i) =>
                /\ Len(sessions'[i].messages) = Len(sessions[i].messages) + 2
                /\ sessions'[i].messages_count
                        = sessions[i].messages_count + 2]_vars

\* a session holds its initial message and two turns, one of them a failed
\* round: 5 messages, 4 of them counted
C34_Witness ==
    /\ last.op = "sendMessage"
    /\ last.threw = ""
    /\ OracleFailed(last.outcomes[1])
    /\ Len(sessions[last.sessionId].messages) = 5
    /\ sessions[last.sessionId].messages_count = 4

\* the call was a turn (the synthetic first one or a user's) whose round
\* ended with a decision
TurnDecided(call) ==
    /\ call.op \in {"startSession", "sendMessage"}
    /\ call.threw = ""
    /\ ~OracleFailed(call.outcomes[1])

\* C35: no operation changes SessionContext.current_goal after the session
\* is created: it is 'initial_engagement' in every state and no step changes
\* it; the decision's next_goal goes to user_inputs.current_goal only, so the
\* previous_goal every decided turn records is 'initial_engagement', never
\* the next_goal of the turn before.
C35_CurrentGoalFixed ==
    /\ [](\A i \in SessionIds :
            sessions[i].current_goal = "initial_engagement")
    /\ [][\A i \in SessionIds :
            sessions'[i].current_goal = sessions[i].current_goal]_vars
    /\ [](TurnDecided(last) =>
            LET delta == last.responses[1].context_updates
                decision == last.outcomes[1].decision
            IN /\ delta.previous_goal = "initial_engagement"
               /\ delta.current_goal = decision.action_execution.next_goal
               /\ heap[sessions[last.sessionId].user_inputs].current_goal
                    = decision.action_execution.next_goal)

\* the second decided turn of a session: the first turn's next_goal 'close'
\* is in user_inputs, and the turn still records 'initial_engagement'
C35_Witness ==
    /\ DecidedTurn(last)
    /\ Len(sessions[last.sessionId].messages) = 3
    /\ sessions[last.sessionId].messages[1].content
            = BaseDecision.action_execution.message
    /\ sessions[last.sessionId].current_goal = "initial_engagement"
    /\ heap[sessions[last.sessionId].user_inputs].current_goal = "close"
    /\ last.responses[1].context_updates.previous_goal = "initial_engagement"
    /\ last.responses[1].context_updates.previous_goal
            # heap[sessions[last.sessionId].user_inputs].current_goal

\* C36: when startSession returns, the new session is active whatever the
\* synthetic first turn produced (a decision that flags escalation and the
\* fallback response of a failed round included), its messages hold the one
\* assistant entry of that turn and no user entry, its messages_count is 0
\* and the total-message counter is what it was before the call.
C36_FirstTurnLeavesActive ==
    [][(last'.op = "startSession" /\ last'.threw = "") =>
        LET context == sessions'[last'.sessionId]
            initialResponse == last'.responses[1]
        IN /\ context.status = "active"
           /\ last'.returned[1].status = "started"
           /\ context.messages
                = <<Message("assistant", initialResponse.message)>>
           /\ context.messages_count = 0
           /\ sessionStats'.totalMessages = sessionStats.totalMessages]_vars

\* startSession has returned after a first turn whose decision flags
\* escalation, and an earlier session was started by a failed round
C36_Witness ==
    /\ last.op = "startSession"
    /\ last.threw = ""
    /\ last.outcomes = <<Decided(EscalatingDecision)>>
    /\ last.responses[1].meta.should_escalate = TRUE
    /\ sessions[last.sessionId].status = "active"
    /\ \E j \in SessionIds :
            /\ j # last.sessionId
            /\ sessions[j].messages[1].content = FallbackMessage

\* the session's user_inputs hold a decision_quality entry
Tagged(i) == "decision_quality" \in DOMAIN heap[sessions[i].user_inputs]

\* the oracle's own context_updates of the call's round hold the key
OracleTagged(call) ==
    /\ ~OracleFailed(call.outcomes[1])
    /\ "decision_quality"
            \in DOMAIN call.outcomes[1].decision.action_execution.context_updates

\* the call ran one round of the agent and returned
TurnReturned(call) ==
    /\ call.op \in {"startSession", "sendMessage"}
    /\ call.threw = ""

\* C37: the quality tier the interpreter computes is never written into the
\* context delta: a turn's delta holds decision_quality exactly when the
\* oracle's own context_updates held it; a stored session's user_inputs gain
\* the key only by such a turn on that session, and a new session's only
\* from the caller's initialContext or such a first turn; a session without
\* the key earns nothing beyond the completed, sentiment and escalated
\* terms of the performance score, however its decisions were rated.
C37_QualityNeverRecorded ==
    /\ [](TurnReturned(last) =>
            ("decision_quality" \in DOMAIN last.responses[1].context_updates
                <=> OracleTagged(last)))
    /\ [][\A i \in SessionIds :
            (Tagged(i)' /\ ~Tagged(i)) =>
                /\ last'.op = "sendMessage"
                /\ last'.threw = ""
                /\ last'.sessionId = i
                /\ OracleTagged(last')]_vars
    /\ [][(last'.op = "startSession" /\ last'.threw = "") =>
            \E initialContext \in FirstTurnContexts :
                /\ heap'[sessions'[last'.sessionId].user_inputs]
                        = Assign(initialContext,
                                 last'.responses[1].context_updates)
                /\ "decision_quality"
                        \in DOMAIN heap'[sessions'[last'.sessionId].user_inputs]
                    => \/ "decision_quality" \in DOMAIN initialContext
                       \/ OracleTagged(last')]_vars
    /\ [](\A i \in SessionIds :
            ~Tagged(i) =>
                sessionScore(i)
                    = Earned(sessions[i].status = "completed", 10)
                    + Earned(inputIs(i, "user_sentiment", "positive"), 3)
                    - Earned(sessions[i].status = "escalated", 5))

\* a session started without a tag whose first turn and whose latest turn
\* were both rated high: its user_inputs hold no decision_quality and its
\* points are the 0.3 of the recorded sentiment alone
C37_Witness ==
    /\ DecidedTurn(last)
    /\ last.responses[1].meta.decision_quality = "high"
    /\ Len(sessions[last.sessionId].messages) = 3
    /\ sessions[last.sessionId].messages[1].content
            = BaseDecision.action_execution.message
    /\ ~Tagged(last.sessionId)
    /\ sessionScore(last.sessionId) = 3

\* C38: once endSession has returned true for a session, a sendMessage on it
\* that was suspended at the oracle call when endSession ran changes nothing
\* when it resumes: it appends no message, merges no context delta and does
\* not turn the status from completed into escalated.
C38_EndedSessionUntouched ==
    [][\A i \in SessionIds :
        (/\ sessions[i].status = "completed"
         /\ last'.op = "sendMessage"
         /\ last'.sessionId = i) =>
            /\ sessions'[i].messages = sessions[i].messages
            /\ sessions'[i].messages_count = sessions[i].messages_count
            /\ heap'[sessions[i].user_inputs] = heap[sessions[i].user_inputs]
            /\ sessions'[i].status = "completed"]_vars

\* C39: sessions are independent: a startSession, sendMessage or endSession
\* on session A leaves the messages, messages_count, status and user_inputs
\* of every other session B of another user unchanged, also when A and B
\* were started with the same initialContext object.
C39_SessionsIndependent ==
    [][\A A \in 1..Len(sessions'), B \in SessionIds :
        (/\ last'.op \in {"startSession", "sendMessage", "endSession"}
         /\ last'.sessionId = A
         /\ A # B
         /\ sessions'[A].user_id # sessions[B].user_id) =>
            /\ sessions'[B].messages = sessions[B].messages
            /\ sessions'[B].messages_count = sessions[B].messages_count
            /\ sessions'[B].status = sessions[B].status
            /\ heap'[sessions'[B].user_inputs]
                    = heap[sessions[B].user_inputs]]_vars

====
